---------------------------- MODULE Spec2Model ----------------------------
(***************************************************************************)
(* A model of the Talabat POS tool's client-side managers and servers:     *)
(*   - MonitoringManager  (src/public/js/monitoring.js)                    *)
(*   - ReportsManager     (src/unnamed/part_000)                           *)
(*   - ConfigurationManager and the global save/import handlers            *)
(*                        (src/public/js/config.js, src/js/main.js)        *)
(*   - TalabatAPIClient   (src/unnamed/part_001)                           *)
(*   - AuthenticationManager and IntegrationTester (src/unnamed/part_003)  *)
(*   - TalabatPOSServer, TalabatPOSVercelServer and the serverless         *)
(*     function (src/unnamed/part_004, part_005, src/api/index.js)         *)
(* Every manager is one record-valued variable holding the object's        *)
(* fields; every method is an operator from the object (and its inputs)    *)
(* to the object after the call, so that a handler which calls other       *)
(* methods is the composition of their operators.                          *)
(***************************************************************************)
EXTENDS Integers, Sequences, FiniteSets, TLC

VARIABLES
    monitoringManager,  \* the MonitoringManager instance (window.monitoringManager)
    apiCallTracker,     \* window.apiCallTracker: the call ids in flight
    activeIntervals,    \* the browser's live setInterval handles
    localStorage,       \* the browser's localStorage, one field per key
    budget,             \* operations the environment may still issue
    completed,          \* history: [ok, failed, elapsed] of the calls completed by this instance
    reportsManager,     \* the ReportsManager instance: scheduledReports, reportHistory
    pendingReports,     \* generateReport calls waiting on their 2 s timer, oldest first
    page,               \* the document: loading overlay, #report-results, downloads
    lastReport,         \* the report document the last finished generateReport built
    reportCalls,        \* history: how many report calls were made, and how many rejected
    validation,         \* a call of validateReportParameters: its argument and its outcome
    csv,                \* a call of formatAsCSV: the records given and the text returned
    configManager,      \* the ConfigurationManager instance: currentConfig
    configPage,         \* the configuration form, the unsaved marker, what the page shows
    validationTimers,   \* pending 500 ms timers of onConfigurationChange
    configCalls,        \* history: the last save or import asked for, and how many were
    configValidation,   \* a call of validateConfiguration: its argument and its outcome
    login,              \* a request to POST /api/auth/login and the response to it
    server,             \* a server's stored configurations and its last response
    apiClient,          \* the TalabatAPIClient instance (window.apiClient)
    authManager,        \* the AuthenticationManager instance (window.authManager)
    clock,              \* the time, in steps of five minutes
    apiCall,            \* a call of a TalabatAPIClient operation and what it settled to
    integrationTester,  \* the IntegrationTester instance (window.integrationTester)
    testRun,            \* the last call of a test of the testing tab and what it did
    pendingCalls        \* the operations waiting at an await for a timer or a response

monOnly == <<apiCallTracker, activeIntervals, completed>>

repOnly == <<reportsManager, pendingReports, page, lastReport, reportCalls>>

pureOnly == <<validation, csv, configValidation>>

cfgOnly == <<configManager, configPage, validationTimers, configCalls>>

authOnly == <<apiClient, authManager, clock, apiCall>>

testOnly == <<integrationTester, testRun, pendingCalls>>

restOnly == <<login, server, authOnly, testOnly>>

vars == <<monitoringManager, apiCallTracker, activeIntervals, localStorage, budget, completed,
          reportsManager, pendingReports, page, lastReport, reportCalls, validation, csv,
          configManager, configPage, validationTimers, configCalls, configValidation,
          login, server, apiClient, authManager, clock, apiCall,
          integrationTester, testRun, pendingCalls>>

\* localStorage.getItem gives null for a key never set, the stored value otherwise
Absent == <<>>
Stored(v) == <<v>>

(***************************************************************************)
(* Bounds of the model.                                                    *)
(***************************************************************************)
\* operations issued after a start-up from empty storage
MaxOpsFresh == 5
\* operations issued after a start-up from storage filled up to the caps
MaxOpsStored == 3
\* call ids the API client hands to the tracker
MaxCallId == 2
\* longest elapsed time (performance.now() difference) of one call
MaxElapsed == 2
\* report calls (generateReport, scheduleReport) made on the reports page
MaxReportOps == 2
\* the longest accepted range the report form holds, in half days
MaxRangeTicks == 3
\* patterns of the random fields of generated orders
MaxSeed == 0
\* the latest from-date the validation is given, in half days
MaxFromTick == 2
\* records in a list given to formatAsCSV
MaxRecords == 2
\* operations issued on the configuration page
MaxConfigOps == 3

(***************************************************************************)
(* MonitoringManager                                                       *)
(***************************************************************************)
maxLogEntries == 1000
maxMetricPoints == 50

Levels == {"info", "error"}
CallIds == 1..MaxCallId
ElapsedTimes == 1..MaxElapsed

\* Array.prototype.slice(-n) for n > 0: the last n elements.
SliceLast(s, n) ==
    IF Len(s) <= n THEN s ELSE SubSeq(s, Len(s) - n + 1, Len(s))

\* A rate is kept as the fraction the code computes, times 100.
Rate(num, den) == [num |-> num, den |-> den]

\* The value of a metric point; the timestamp plays no part in any bound or rate.
Point(v) == [value |-> v]

\* constructor, lines 8-29
NewMonitoringManager ==
    [ logs |-> <<>>,
      metrics |-> [ responseTime |-> <<>>, successRate |-> <<>>, errorRate |-> <<>>,
                    activeOrders |-> 0, systemStatus |-> "monitoring" ],
      monitoringInterval |-> 0,
      isMonitoring |-> FALSE,
      performanceData |-> [ apiCalls |-> 0, successfulCalls |-> 0, failedCalls |-> 0,
                            totalResponseTime |-> 0,
                            averageResponseTime |-> Rate(0, 1) ],
      nextId |-> 1 ]

\* loadStoredData: the stored logs are cut to the cap, the stored metrics are
\* spread over the defaults as they are.
loadStoredData(m, ls) ==
    LET m1 == IF ls.logs # Absent
              THEN [m EXCEPT !.logs = SliceLast(ls.logs[1], maxLogEntries),
                             !.nextId = IF ls.logs[1] = <<>> THEN 1
                                        ELSE ls.logs[1][Len(ls.logs[1])].id + 1]
              ELSE m
    IN  IF ls.metrics # Absent THEN [m1 EXCEPT !.metrics = ls.metrics[1]] ELSE m1

\* saveData
saveData(m, ls) ==
    [ls EXCEPT !.logs = Stored(SliceLast(m.logs, maxLogEntries)),
               !.metrics = Stored(m.metrics)]

\* updateErrorRate
updateErrorRate(m) ==
    LET totalCalls == m.performanceData.apiCalls
        errorRate == IF totalCalls > 0
                     THEN Rate(m.performanceData.failedCalls, totalCalls)
                     ELSE Rate(0, 1)
        pushed == Append(m.metrics.errorRate, Point(errorRate))
    IN  [m EXCEPT !.metrics.errorRate =
            IF Len(pushed) > maxMetricPoints THEN SliceLast(pushed, maxMetricPoints)
            ELSE pushed]

\* updateSuccessRate as it would be without the cut to the cap
updateSuccessRateUncut(m) ==
    LET totalCalls == m.performanceData.successfulCalls + m.performanceData.failedCalls
        successRate == IF totalCalls > 0
                       THEN Rate(m.performanceData.successfulCalls, totalCalls)
                       ELSE Rate(1, 1)
    IN  [m EXCEPT !.metrics.successRate = Append(@, Point(successRate))]

\* updateSuccessRate
updateSuccessRate(m) ==
    LET totalCalls == m.performanceData.successfulCalls + m.performanceData.failedCalls
        successRate == IF totalCalls > 0
                       THEN Rate(m.performanceData.successfulCalls, totalCalls)
                       ELSE Rate(1, 1)
        pushed == Append(m.metrics.successRate, Point(successRate))
    IN  [m EXCEPT !.metrics.successRate =
            IF Len(pushed) > maxMetricPoints THEN SliceLast(pushed, maxMetricPoints)
            ELSE pushed]

\* addLog as it would be without the cut to the cap
addLogUncut(m, level, module) ==
    LET entry == [id |-> m.nextId, level |-> level, module |-> module]
        m1 == [m EXCEPT !.logs = Append(m.logs, entry), !.nextId = @ + 1]
    IN  IF level = "error"
        THEN updateErrorRate([m1 EXCEPT !.performanceData.failedCalls = @ + 1])
        ELSE m1

\* addLog as it would be if the cut kept the head of the list
addLogKeepsOldest(m, level, module) ==
    LET entry == [id |-> m.nextId, level |-> level, module |-> module]
        pushed == Append(m.logs, entry)
        m1 == [m EXCEPT !.logs = IF Len(pushed) > maxLogEntries
                                 THEN SubSeq(pushed, 1, maxLogEntries)
                                 ELSE pushed,
                        !.nextId = @ + 1]
    IN  IF level = "error"
        THEN updateErrorRate([m1 EXCEPT !.performanceData.failedCalls = @ + 1])
        ELSE m1

\* addLog: push, cut to the cap, and count an error-level entry as a failed call
addLog(m, level, module) ==
    LET entry == [id |-> m.nextId, level |-> level, module |-> module]
        pushed == Append(m.logs, entry)
        m1 == [m EXCEPT !.logs = IF Len(pushed) > maxLogEntries
                                 THEN SliceLast(pushed, maxLogEntries)
                                 ELSE pushed,
                        !.nextId = @ + 1]
    IN  IF level = "error"
        THEN updateErrorRate([m1 EXCEPT !.performanceData.failedCalls = @ + 1])
        ELSE m1

\* startMonitoring: the state after the call and the interval handles after it
startMonitoringHandles(m, handles) ==
    IF m.isMonitoring THEN handles
    ELSE handles \cup {1 + Cardinality(handles)}

\* startMonitoring without its guard
startMonitoringUnguarded(m, handles) ==
    addLog([m EXCEPT !.isMonitoring = TRUE,
                     !.monitoringInterval = 1 + Cardinality(handles)],
           "info", "MonitoringManager")

startMonitoring(m, handles) ==
    IF m.isMonitoring THEN m
    ELSE addLog([m EXCEPT !.isMonitoring = TRUE,
                          !.monitoringInterval = 1 + Cardinality(handles)],
                "info", "MonitoringManager")

\* stopMonitoring
stopMonitoringHandles(m, handles) ==
    IF ~m.isMonitoring THEN handles
    ELSE IF m.monitoringInterval # 0 THEN handles \ {m.monitoringInterval}
    ELSE handles

stopMonitoring(m) ==
    IF ~m.isMonitoring THEN m
    ELSE addLog([m EXCEPT !.isMonitoring = FALSE, !.monitoringInterval = 0],
                "info", "MonitoringManager")

\* trackAPICallStart
trackAPICallStart(m) ==
    addLog([m EXCEPT !.performanceData.apiCalls = @ + 1], "info", "APITracker")

\* trackAPICallEnd for a call id the tracker holds
trackAPICallEndTracked(m, success, responseTime) ==
    LET total == m.performanceData.totalResponseTime + responseTime
        m1 == [m EXCEPT !.performanceData.totalResponseTime = total,
                        !.performanceData.averageResponseTime =
                            Rate(total, m.performanceData.apiCalls)]
        m2 == IF success
              THEN [m1 EXCEPT !.performanceData.successfulCalls = @ + 1]
              ELSE [m1 EXCEPT !.performanceData.failedCalls = @ + 1]
        pushed == Append(m2.metrics.responseTime, Point(responseTime))
        m3 == [m2 EXCEPT !.metrics.responseTime =
                  IF Len(pushed) > maxMetricPoints
                  THEN SliceLast(pushed, maxMetricPoints) ELSE pushed]
    IN  addLog(m3, IF success THEN "success" ELSE "error", "APITracker")

\* trackAPICallEnd
trackAPICallEnd(m, tracked, success, responseTime) ==
    updateSuccessRate(IF tracked THEN trackAPICallEndTracked(m, success, responseTime)
                      ELSE m)

\* collectMetrics: the status follows the session, the order count is drawn,
\* and a browser that exposes performance.memory logs a debug entry
collectMetrics(m, authenticated, orders, hasMemory) ==
    LET m1 == [m EXCEPT !.metrics.systemStatus =
                            IF authenticated THEN "operational"
                            ELSE "authentication_required",
                        !.metrics.activeOrders = orders]
    IN  IF hasMemory THEN addLog(m1, "debug", "SystemMonitor") ELSE m1

\* exportLogs: the download leaves the manager alone, the export is logged
exportLogs(m) == addLog(m, "info", "MonitoringManager")

\* clearLogs: the saved copy is the emptied list, the entry is added after it
clearLogsSaved(m, ls) == saveData([m EXCEPT !.logs = <<>>], ls)

clearLogs(m) == addLog([m EXCEPT !.logs = <<>>], "info", "MonitoringManager")

\* new MonitoringManager(): initialize() loads the stored data and starts monitoring
Construct(ls) == startMonitoring(loadStoredData(NewMonitoringManager, ls), {})

(***************************************************************************)
(* ReportsManager                                                          *)
(***************************************************************************)
\* Times are counted in half days, so that a span can fall between two
\* whole numbers of days: (1000 * 60 * 60 * 24) ms is TicksPerDay ticks.
TicksPerDay == 2
\* "Date range cannot exceed 365 days"
maxRangeDays == 365
\* saveReportHistory keeps the last 100 records
historyKept == 100

\* The value of a date field: empty, a text new Date() cannot parse (its
\* time value is NaN), or a date.
MissingDate == [kind |-> "missing", t |-> 0]
InvalidDate == [kind |-> "invalid", t |-> 0]
DateAt(t) == [kind |-> "date", t |-> t]

\* the keys of this.reportTemplates
TemplateKeys == {"completed", "cancelled", "performance", "errors", "all"}

\* this.reportTemplates is an object literal: a lookup by key also finds what
\* it inherits from Object.prototype (constructor, toString, ...).
ObjectPrototypeKeys == {"constructor"}

\* this.reportTemplates[type], as a condition
reportTemplatesHas(type) == type \in TemplateKeys \cup ObjectPrototypeKeys

ReportFormats == {"json", "csv", "pdf"}

\* fromDate > toDate and toDate - fromDate on Date objects: every comparison
\* with NaN is false
LaterThan(a, b) == a.kind = "date" /\ b.kind = "date" /\ a.t > b.t

SpanExceeds(a, b, days) ==
    a.kind = "date" /\ b.kind = "date" /\ b.t - a.t > days * TicksPerDay

\* validateReportParameters: "valid" for true, the message of the Error thrown otherwise
validateReportParameters(params) ==
    IF params.fromDate.kind = "missing" \/ params.toDate.kind = "missing"
        THEN "Please select date range"
    ELSE IF LaterThan(params.fromDate, params.toDate)
        THEN "From date cannot be later than to date"
    ELSE IF SpanExceeds(params.fromDate, params.toDate, maxRangeDays)
        THEN "Date range cannot exceed 365 days"
    ELSE IF ~reportTemplatesHas(params.type)
        THEN "Invalid report type"
    ELSE IF params.format \notin ReportFormats
        THEN "Invalid report format"
    ELSE "valid"

\* the day count rounded down instead of up
daysDiffRoundedDown(params) ==
    IF params.fromDate.kind = "date" /\ params.toDate.kind = "date"
    THEN (params.toDate.t - params.fromDate.t) \div TicksPerDay
    ELSE 0

\* Math.ceil((toDate - fromDate) / (1000 * 60 * 60 * 24)); NaN bounds no loop
\* iteration, which is what 0 does
daysDiff(params) ==
    IF params.fromDate.kind = "date" /\ params.toDate.kind = "date"
    THEN (params.toDate.t - params.fromDate.t + TicksPerDay - 1) \div TicksPerDay
    ELSE 0

CancellationReasons ==
    << "Customer Requested", "Restaurant Unavailable", "Out of Stock",
       "Delivery Issues", "Payment Failed", "Technical Error" >>

\* The random fields of the i-th generated order, drawn by the pattern `seed`.
DrawSlot(i, seed) == (i + seed) % 3

\* generateCompletedOrdersReport
generateCompletedOrdersReport(params, ordersPerDay, seed) ==
    LET sampleOrders ==
            [ i \in 1..(daysDiff(params) * ordersPerDay) |->
                [ order_id |-> i - 1, order_date |-> DrawSlot(i, seed),
                  rating |-> 4 + ((i + seed) % 2) ] ]
    IN  [ records |-> sampleOrders,
          summary |-> [ total_orders |-> Len(sampleOrders) ] ]

\* generateCancelledOrdersReport with every refund counted as processed
generateCancelledOrdersReportAllProcessed(params, cancelledPerDay, seed) ==
    LET sampleCancelled ==
            [ i \in 1..(daysDiff(params) * cancelledPerDay) |->
                [ order_id |-> i - 1, order_date |-> DrawSlot(i + 1, seed),
                  cancellation_reason |-> CancellationReasons[((i + seed) % 6) + 1],
                  cancelled_by |-> IF (i + seed) % 2 = 0 THEN "customer" ELSE "restaurant",
                  refund_status |-> IF (i * (seed + 1)) % 3 = 0 THEN "pending"
                                    ELSE "processed" ] ]
        count(P(_)) == Len(SelectSeq(sampleCancelled, P))
        isCustomer(o) == o.cancelled_by = "customer"
        isRestaurant(o) == o.cancelled_by = "restaurant"
        isPending(o) == o.refund_status = "pending"
    IN  [ records |-> sampleCancelled,
          summary |->
            [ total_cancelled |-> Len(sampleCancelled),
              cancellation_reasons |->
                [ r \in { sampleCancelled[i].cancellation_reason :
                            i \in 1..Len(sampleCancelled) } |->
                    Cardinality({ i \in 1..Len(sampleCancelled) :
                                    sampleCancelled[i].cancellation_reason = r }) ],
              customer_cancelled |-> count(isCustomer),
              restaurant_cancelled |-> count(isRestaurant),
              refunds_processed |-> Len(sampleCancelled),
              refunds_pending |-> count(isPending) ] ]

\* generateCancelledOrdersReport
generateCancelledOrdersReport(params, cancelledPerDay, seed) ==
    LET sampleCancelled ==
            [ i \in 1..(daysDiff(params) * cancelledPerDay) |->
                [ order_id |-> i - 1, order_date |-> DrawSlot(i + 1, seed),
                  cancellation_reason |-> CancellationReasons[((i + seed) % 6) + 1],
                  cancelled_by |-> IF (i + seed) % 2 = 0 THEN "customer" ELSE "restaurant",
                  refund_status |-> IF (i * (seed + 1)) % 3 = 0 THEN "pending"
                                    ELSE "processed" ] ]
        count(P(_)) == Len(SelectSeq(sampleCancelled, P))
        isCustomer(o) == o.cancelled_by = "customer"
        isRestaurant(o) == o.cancelled_by = "restaurant"
        isProcessed(o) == o.refund_status = "processed"
        isPending(o) == o.refund_status = "pending"
    IN  [ records |-> sampleCancelled,
          summary |->
            [ total_cancelled |-> Len(sampleCancelled),
              cancellation_reasons |->
                [ r \in { sampleCancelled[i].cancellation_reason :
                            i \in 1..Len(sampleCancelled) } |->
                    Cardinality({ i \in 1..Len(sampleCancelled) :
                                    sampleCancelled[i].cancellation_reason = r }) ],
              customer_cancelled |-> count(isCustomer),
              restaurant_cancelled |-> count(isRestaurant),
              refunds_processed |-> count(isProcessed),
              refunds_pending |-> count(isPending) ] ]

\* generatePerformanceReport: five fixed metric rows
generatePerformanceReport ==
    [ records |-> [ i \in 1..5 |-> [metric |-> i] ],
      summary |-> [ overall_performance |-> "Needs Improvement" ] ]

\* generateErrorsReport: one record per error-level entry of the monitoring log
generateErrorsReport(m) ==
    LET isError(log) == log.level = "error"
        errorLogs == SelectSeq(m.logs, isError)
    IN  [ records |-> [ i \in 1..Len(errorLogs) |->
                          [module |-> errorLogs[i].module, details |-> "null"] ],
          summary |-> [ total_errors |-> Len(errorLogs) ] ]

\* allOrders.sort((a, b) => new Date(b.order_date) - new Date(a.order_date)):
\* latest first, equal dates in their order (the sort is stable)
SortByDateDescending(orders) ==
    LET at(d) == LET on(o) == o.order_date = d IN SelectSeq(orders, on)
    IN  at(2) \o at(1) \o at(0)

\* generateAllOrdersReport, with the completed orders alone as its total
generateAllOrdersReportCompletedTotal(params, ordersPerDay, cancelledPerDay, seed) ==
    LET completedData == generateCompletedOrdersReport(params, ordersPerDay, seed)
        cancelledData == generateCancelledOrdersReport(params, cancelledPerDay, seed)
    IN  [ records |-> completedData.records \o cancelledData.records,
          summary |-> [ total_orders |-> Len(completedData.records),
                        completed_orders |-> Len(completedData.records),
                        cancelled_orders |-> Len(cancelledData.records) ] ]

\* generateAllOrdersReport
generateAllOrdersReport(params, ordersPerDay, cancelledPerDay, seed) ==
    LET completedData == generateCompletedOrdersReport(params, ordersPerDay, seed)
        cancelledData == generateCancelledOrdersReport(params, cancelledPerDay, seed)
        tag(orders, status) ==
            [ i \in 1..Len(orders) |->
                [ order_id |-> orders[i].order_id, order_date |-> orders[i].order_date,
                  status |-> status ] ]
        allOrders == SortByDateDescending(
                        tag(completedData.records, "completed")
                        \o tag(cancelledData.records, "cancelled"))
    IN  [ records |-> allOrders,
          summary |-> [ total_orders |-> Len(allOrders),
                        completed_orders |-> Len(completedData.records),
                        cancelled_orders |-> Len(cancelledData.records) ] ]

\* createReportData: the switch over params.type; a type that passed the
\* validation and matches no case keeps the empty summary and record list
createReportData(params, m, ordersPerDay, cancelledPerDay, seed) ==
    CASE params.type = "completed" ->
            generateCompletedOrdersReport(params, ordersPerDay, seed)
      [] params.type = "cancelled" ->
            generateCancelledOrdersReport(params, cancelledPerDay, seed)
      [] params.type = "performance" -> generatePerformanceReport
      [] params.type = "errors" -> generateErrorsReport(m)
      [] params.type = "all" ->
            generateAllOrdersReport(params, ordersPerDay, cancelledPerDay, seed)
      [] OTHER -> [ records |-> <<>>, summary |-> [ none |-> 0 ] ]

\* const reportRecord = {...}: the metadata kept of a generated report
ReportRecord(params, reportData) ==
    [ type |-> params.type, format |-> params.format,
      dateRange |-> [from |-> params.fromDate, to |-> params.toDate],
      recordCount |-> Len(reportData.records) ]

\* showResults(title, results, 'report-results'): the container's content is
\* replaced by the title and one line per result
showResults(pg, lines) ==
    [pg EXCEPT !.reportResults = lines, !.shown = @ + 1]

\* a result line: its mark and what it tells
Failed(message) == [mark |-> "failed", text |-> message]
Passed(text) == [mark |-> "passed", text |-> text]

\* the catch block of generateReport, but for its logActivity
generateReportFailedUnshown(pg, message) == [pg EXCEPT !.loading = FALSE]

generateReportFailed(pg, message) ==
    showResults([pg EXCEPT !.loading = FALSE], <<Failed(message)>>)

\* the catch block of scheduleReport, but for its logActivity
scheduleReportFailed(pg, message) == showResults(pg, <<Failed(message)>>)

\* showReportResults
showReportResults(pg, reportRecord) ==
    showResults(pg, << Passed("generated"), Passed(reportRecord.type),
                       Passed("range"), Passed(reportRecord.format),
                       Passed("records"), Passed("size"),
                       Passed("downloaded") >>)

\* deliverReport: a.click() on a link named after the type and the format
deliverReport(pg, params) ==
    [pg EXCEPT !.downloads = Append(@, [type |-> params.type, format |-> params.format])]

\* logActivity: window.monitoringManager.addLog({..., module: 'ReportsManager'})
logActivity(m, level) == addLog(m, level, "ReportsManager")

\* saveReportHistory
saveReportHistory(rm, ls) ==
    [ls EXCEPT !.report_history = Stored(SliceLast(rm.reportHistory, historyKept))]

\* saveScheduledReports
saveScheduledReports(rm, ls) ==
    [ls EXCEPT !.scheduled_reports = Stored(rm.scheduledReports)]

\* the scheduledReport object of scheduleReport
ScheduledReport(params) ==
    [ type |-> params.type, format |-> params.format,
      fromDate |-> params.fromDate, toDate |-> params.toDate,
      frequency |-> "weekly", active |-> TRUE ]

\* new ReportsManager(): loadScheduledReports, loadReportHistory
NewReportsManager(ls) ==
    [ scheduledReports |-> IF ls.scheduled_reports # Absent
                           THEN ls.scheduled_reports[1] ELSE <<>>,
      reportHistory |-> IF ls.report_history # Absent
                        THEN ls.report_history[1] ELSE <<>> ]

\* getReportParameters on the untouched form
DefaultParameters ==
    [ fromDate |-> MissingDate, toDate |-> MissingDate, type |-> "all", format |-> "json" ]

NoValidation == [ params |-> DefaultParameters, result |-> "idle" ]

NoCalls == [ made |-> 0, rejected |-> 0 ]

NewPage == [ loading |-> FALSE, reportResults |-> <<>>, shown |-> 0, downloads |-> <<>> ]

(***************************************************************************)
(* ReportsManager.formatAsCSV.  Texts are sequences of characters, so that *)
(* quoting, escaping and joining are done character by character.          *)
(***************************************************************************)
Quote == "\""
Comma == ","
Newline == "\n"

\* The keys of a record of the errors report in the order the record is built
\* with; each is a text of lower-case letters.
KeyTimestamp == <<"t", "i", "m", "e", "s", "t", "a", "m", "p">>
KeyModule == <<"m", "o", "d", "u", "l", "e">>
KeyDetails == <<"d", "e", "t", "a", "i", "l", "s">>
RecordKeys == {KeyTimestamp, KeyModule, KeyDetails}

\* the values a field of a record can hold
NullValue == [kind |-> "null", text |-> <<>>]
UndefinedValue == [kind |-> "undefined", text |-> <<>>]
ObjectValue == [kind |-> "object", text |-> <<>>]
StringValue(text) == [kind |-> "string", text |-> text]
\* no such key in the record
NoKey == [kind |-> "absent", text |-> <<>>]

\* Object.keys(record)
ObjectKeys(record) == { key \in DOMAIN record : record[key] # NoKey }

\* record[key]: undefined where the record has no such key
Get(record, key) ==
    IF key \in DOMAIN record /\ record[key] # NoKey THEN record[key] ELSE UndefinedValue

\* typeof record[key] !== 'object' || record[key] === null
IsScalar(value) == value.kind # "object"

\* the code units of the lower-case letters, in their order
LowerCase ==
    << "a", "b", "c", "d", "e", "f", "g", "h", "i", "j", "k", "l", "m",
       "n", "o", "p", "q", "r", "s", "t", "u", "v", "w", "x", "y", "z" >>

CodeUnit(c) == CHOOSE i \in 1..Len(LowerCase) : LowerCase[i] = c

\* a sorts before b by Array.prototype.sort's default order: code unit by code
\* unit, a proper prefix first
SortsBefore(a, b) ==
    \E i \in 1..(Len(a) + 1) :
        /\ i <= Len(b)
        /\ \A j \in 1..(i - 1) : a[j] = b[j]
        /\ i <= Len(a) => CodeUnit(a[i]) < CodeUnit(b[i])

\* the keys in the order the records declare them
InDeclaredOrder(keys) ==
    LET declared == <<KeyTimestamp, KeyModule, KeyDetails>>
        kept(key) == key \in keys
    IN  SelectSeq(declared, kept)

\* Array.from(columns).sort()
RECURSIVE Sort(_)
Sort(keys) ==
    IF keys = {} THEN <<>>
    ELSE LET first == CHOOSE k \in keys : \A other \in keys \ {k} : SortsBefore(k, other)
         IN  <<first>> \o Sort(keys \ {first})

\* parts.join(separator)
RECURSIVE Join(_, _)
Join(parts, separator) ==
    IF parts = <<>> THEN <<>>
    ELSE IF Len(parts) = 1 THEN parts[1]
    ELSE parts[1] \o <<separator>> \o Join(Tail(parts), separator)

\* String(value) for a value that is neither null nor undefined
String(value) ==
    IF value.kind = "object"
    THEN << "[", "o", "b", "j", "e", "c", "t", " ", "O", "b", "j", "e", "c", "t", "]" >>
    ELSE value.text

\* text.replace(/"/g, '""')
RECURSIVE EscapeQuotes(_)
EscapeQuotes(text) ==
    IF text = <<>> THEN <<>>
    ELSE (IF Head(text) = Quote THEN <<Quote, Quote>> ELSE <<Head(text)>>)
         \o EscapeQuotes(Tail(text))

\* the cell with its quotes left as they are
CellUnescaped(value) ==
    IF value.kind \in {"null", "undefined"} THEN <<>>
    ELSE <<Quote>> \o String(value) \o <<Quote>>

\* the callback of columnArray.map in formatAsCSV
Cell(value) ==
    IF value.kind \in {"null", "undefined"} THEN <<>>
    ELSE <<Quote>> \o EscapeQuotes(String(value)) \o <<Quote>>

NoDataAvailable == << "N", "o", " ", "d", "a", "t", "a" >>

\* formatAsCSV
formatAsCSV(records) ==
    IF Len(records) = 0 THEN NoDataAvailable
    ELSE LET columns == { key \in RecordKeys :
                            \E i \in 1..Len(records) :
                                /\ key \in ObjectKeys(records[i])
                                /\ IsScalar(records[i][key]) }
             columnArray == Sort(columns)
             row(record) ==
                 Join([ c \in 1..Len(columnArray) |-> Cell(Get(record, columnArray[c])) ],
                      Comma)
             csvLines == <<Join(columnArray, Comma)>>
                         \o [ i \in 1..Len(records) |-> row(records[i]) ]
         IN  Join(csvLines, Newline)

\* The texts the fields of the records hold: plain, with a comma, with quotes.
FieldValues ==
    {NullValue, UndefinedValue, ObjectValue, NoKey}
    \cup { StringValue(t) : t \in { <<"a">>, <<"a", Comma>>, <<Quote, "a", Quote>> } }

\* a record of the errors report: a timestamp, and a module and details of any kind
ReportRecords ==
    { [ key \in RecordKeys |->
          IF key = KeyTimestamp THEN StringValue(<<"a">>)
          ELSE IF key = KeyModule THEN module ELSE details ] :
      module \in FieldValues, details \in FieldValues }

RecordLists == UNION { [1..n -> ReportRecords] : n \in 0..MaxRecords }

NoCsv == [ records |-> <<>>, state |-> "idle", text |-> <<>> ]

(***************************************************************************)
(* ConfigurationManager.  A configuration is a record of the five fields   *)
(* the validation reads, each a text; the empty text stands for '' and for *)
(* a field the record lacks, which the code does not tell apart.  A        *)
(* variable holding a configuration holds Config(record), or Null.         *)
(***************************************************************************)
Null == <<>>
Config(record) == <<record>>

UpperCase ==
    << "A", "B", "C", "D", "E", "F", "G", "H", "I", "J", "K", "L", "M",
       "N", "O", "P", "Q", "R", "S", "T", "U", "V", "W", "X", "Y", "Z" >>

Digits == {"0", "1", "2", "3", "4", "5", "6", "7", "8", "9"}

IsLowerCase(c) == \E i \in 1..Len(LowerCase) : LowerCase[i] = c
IsUpperCase(c) == \E i \in 1..Len(UpperCase) : UpperCase[i] = c
\* [a-zA-Z]
IsLetter(c) == IsLowerCase(c) \/ IsUpperCase(c)
\* \s
IsWhitespace(c) == c \in {" ", "\t", "\n"}

ToLowerCase(c) ==
    IF IsUpperCase(c)
    THEN LowerCase[CHOOSE i \in 1..Len(UpperCase) : UpperCase[i] = c]
    ELSE c

\* /^[a-zA-Z\s]+[a-zA-Z]+$/.test(text): some split of the text into a first
\* part of letters and whitespace and a second part of letters, neither empty
MatchesNamePattern(text) ==
    \E k \in 1..(Len(text) - 1) :
        /\ \A i \in 1..k : IsLetter(text[i]) \/ IsWhitespace(text[i])
        /\ \A i \in (k + 1)..Len(text) : IsLetter(text[i])

\* /^[a-z-]+$/.test(text)
MatchesCodePattern(text) ==
    /\ Len(text) >= 1
    /\ \A i \in 1..Len(text) : IsLowerCase(text[i]) \/ text[i] = "-"

\* new URL(string) strips leading and trailing spaces and control characters
RECURSIVE TrimStart(_)
TrimStart(text) ==
    IF text # <<>> /\ IsWhitespace(Head(text)) THEN TrimStart(Tail(text)) ELSE text

RECURSIVE TrimEnd(_)
TrimEnd(text) ==
    IF text # <<>> /\ IsWhitespace(text[Len(text)])
    THEN TrimEnd(SubSeq(text, 1, Len(text) - 1))
    ELSE text

\* the place of the colon that ends the scheme: a letter, then letters, digits,
\* '+', '-' and '.', then ':'; 0 where the text does not start so
SchemeEnd(text) ==
    LET colons == { i \in 2..Len(text) :
                      /\ text[i] = ":"
                      /\ IsLetter(text[1])
                      /\ \A j \in 2..(i - 1) :
                            IsLetter(text[j]) \/ text[j] \in Digits \cup {"+", "-", "."} }
    IN  IF colons = {} THEN 0 ELSE CHOOSE i \in colons : \A j \in colons : i <= j

\* the schemes whose URLs must name a host
HostSchemes ==
    { <<"h", "t", "t", "p">>, <<"h", "t", "t", "p", "s">>, <<"f", "t", "p">>,
      <<"w", "s">>, <<"w", "s", "s">> }

RECURSIVE SkipSlashes(_)
SkipSlashes(text) ==
    IF text # <<>> /\ Head(text) \in {"/", "\\"} THEN SkipSlashes(Tail(text)) ELSE text

\* the text up to the first of '/', '\', '?' and '#'
RECURSIVE HostOf(_)
HostOf(text) ==
    IF text = <<>> \/ Head(text) \in {"/", "\\", "?", "#"} THEN <<>>
    ELSE <<Head(text)>> \o HostOf(Tail(text))

\* isValidUrl: new URL(string) does not throw.  Without a base a URL needs a
\* scheme, and behind http, https, ftp, ws and wss a host that is not empty
\* and holds no space.
isValidUrl(string) ==
    LET text == TrimEnd(TrimStart(string))
        colon == SchemeEnd(text)
        scheme == [ i \in 1..(colon - 1) |-> ToLowerCase(text[i]) ]
        host == HostOf(SkipSlashes(SubSeq(text, colon + 1, Len(text))))
    IN  /\ colon > 0
        /\ scheme \in HostSchemes =>
              /\ host # <<>>
              /\ \A i \in 1..Len(host) : ~IsWhitespace(host[i])

HttpsPrefix == <<"h", "t", "t", "p", "s", ":", "/", "/">>

\* text.startsWith(prefix)
StartsWith(text, prefix) ==
    Len(text) >= Len(prefix) /\ SubSeq(text, 1, Len(prefix)) = prefix

\* the checks of validateConfiguration, but for the one of the URL's scheme
ValidationErrorsAnyScheme(data) ==
    (IF data.integrationName = <<>> \/ ~MatchesNamePattern(data.integrationName)
     THEN <<"Integration Name">> ELSE <<>>)
    \o
    (IF data.integrationCode = <<>> \/ ~MatchesCodePattern(data.integrationCode)
     THEN <<"Integration Code">> ELSE <<>>)
    \o
    (IF data.baseUrl = <<>> \/ ~isValidUrl(data.baseUrl) THEN <<"Base URL">> ELSE <<>>)
    \o
    (IF data.pluginUsername = <<>> THEN <<"Plugin Username is required">> ELSE <<>>)
    \o
    (IF data.pluginPassword = <<>> THEN <<"Plugin Password is required">> ELSE <<>>)

\* the checks of validateConfiguration on the record it settled on
ValidationErrors(data) ==
    (IF data.integrationName = <<>> THEN <<"Integration Name is required">>
     ELSE IF ~MatchesNamePattern(data.integrationName)
          THEN <<"Integration Name should follow format">>
     ELSE <<>>)
    \o
    (IF data.integrationCode = <<>> THEN <<"Integration Code is required">>
     ELSE IF ~MatchesCodePattern(data.integrationCode)
          THEN <<"Integration Code should follow format">>
     ELSE <<>>)
    \o
    (IF data.baseUrl = <<>> THEN <<"Base URL is required">>
     ELSE IF ~isValidUrl(data.baseUrl) THEN <<"Base URL is not valid">>
     ELSE IF ~StartsWith(data.baseUrl, HttpsPrefix) THEN <<"Base URL must use HTTPS">>
     ELSE <<>>)
    \o
    (IF data.pluginUsername = <<>> THEN <<"Plugin Username is required">> ELSE <<>>)
    \o
    (IF data.pluginPassword = <<>> THEN <<"Plugin Password is required">> ELSE <<>>)

\* validateConfiguration as it would be if it preferred the current
\* configuration to its argument
validateConfigurationOfCurrent(cm, config) ==
    LET data == IF cm.currentConfig # Null THEN cm.currentConfig ELSE config
    IN  IF data = Null
        THEN [ threw |-> TRUE, isValid |-> FALSE, errors |-> <<>> ]
        ELSE [ threw |-> FALSE,
               isValid |-> Len(ValidationErrors(data[1])) = 0,
               errors |-> ValidationErrors(data[1]) ]

\* validateConfiguration(config): const data = config || this.currentConfig;
\* reading a field of null throws
validateConfiguration(cm, config) ==
    LET data == IF config # Null THEN config ELSE cm.currentConfig
    IN  IF data = Null
        THEN [ threw |-> TRUE, isValid |-> FALSE, errors |-> <<>> ]
        ELSE [ threw |-> FALSE,
               isValid |-> Len(ValidationErrors(data[1])) = 0,
               errors |-> ValidationErrors(data[1]) ]

\* setDefaults
DefaultConfig ==
    [ integrationName |-> <<>>, integrationCode |-> <<>>, baseUrl |-> <<>>,
      pluginUsername |-> <<>>, pluginPassword |-> <<>> ]

\* the fields populateForm writes into the form: pluginPassword is not one
PopulatedFields == {"integrationName", "integrationCode", "baseUrl", "pluginUsername"}

\* populateForm
populateForm(cm, formData) ==
    IF cm.currentConfig = Null THEN formData
    ELSE [ field \in DOMAIN formData |->
             IF field \in PopulatedFields /\ cm.currentConfig[1][field] # <<>>
             THEN cm.currentConfig[1][field]
             ELSE formData[field] ]

\* loadConfiguration on the page's empty form: the manager, and the form
loadConfiguration(ls) ==
    IF ls.config # Absent
    THEN [ currentConfig |-> Config(ls.config[1]) ]
    ELSE [ currentConfig |-> Config(DefaultConfig) ]

\* saveConfiguration(formData): this.currentConfig = {...this.currentConfig, ...formData};
\* the form data holds every field
saveConfigurationMerged(cm, formData) ==
    IF formData # Null THEN [cm EXCEPT !.currentConfig = formData] ELSE cm

\* saveConfiguration: true, or false where this.currentConfig.updatedAt = ...
\* throws on a null configuration
saveConfigurationSucceeds(cm, formData) ==
    saveConfigurationMerged(cm, formData).currentConfig # Null

\* saveConfiguration: localStorage.setItem(this.config.storageKeys.config, ...)
saveConfigurationStored(cm, formData, ls) ==
    IF saveConfigurationSucceeds(cm, formData)
    THEN [ls EXCEPT !.config = Stored(saveConfigurationMerged(cm, formData).currentConfig[1])]
    ELSE ls

\* ConfigurationManager.logActivity: always at the level 'info'
configLogActivity(m) == addLog(m, "info", "ConfigurationManager")

\* the page's configuration form, the data-unsaved marker of the body, the
\* class of the configuration section, the message shown last and the lines
\* of #auth-results
NewConfigPage(cm) ==
    [ form |-> populateForm(cm, DefaultConfig), unsaved |-> FALSE,
      section |-> "unmarked", message |-> "none", results |-> <<>> ]

NoConfigCalls == [ n |-> 0, op |-> "none", input |-> Null ]

NoConfigValidation ==
    [ config |-> DefaultConfig, state |-> "idle", isValid |-> FALSE, errors |-> <<>> ]

\* the configuration side of the page loaded over the localStorage ls
InitCfgOver(ls) ==
    /\ configManager = loadConfiguration(ls)
    /\ configPage = NewConfigPage(configManager)
    /\ validationTimers = 0
    /\ configCalls = NoConfigCalls

InitCfgIdle == InitCfgOver([config |-> Absent])

\* none of the functions checked on their own has been called
InitPureIdle ==
    validation = NoValidation /\ csv = NoCsv /\ configValidation = NoConfigValidation

\* requests a client sends to a server's configuration endpoints
MaxServerOps == 3
\* the largest :id a request names
MaxConfigurationId == 2

\* window-focus events, storage events and logins in the authentication tab
MaxAuthOps == 3
\* how long the authentication tab is followed, in steps of five minutes
MaxClock == 13

\* no request has reached a server
NoLogin == [ variant |-> "none", body |-> <<>>, state |-> "idle", response |-> <<>> ]
NoServer == [ variant |-> "none", configurations |-> <<>>, logs |-> <<>>, deleted |-> {},
              request |-> <<>>, response |-> <<>> ]

\* new TalabatAPIClient() before initialize()
NewAPIClient == [ baseUrl |-> Stored(<<>>), accessToken |-> Absent, refreshToken |-> Absent ]

\* new AuthenticationManager() before initialize()
NewAuthenticationManager == [ isAuthenticated |-> FALSE, tokenExpiryTimer |-> Absent ]

\* no operation of the client has been called
NoApiCall == [ op |-> "none", username |-> <<>>, password |-> <<>>, outcome |-> "none",
               before |-> NewAPIClient, state |-> "idle", result |-> <<>>,
               request |-> Absent ]

\* new IntegrationTester() over an empty localStorage
NewIntegrationTester ==
    [ testResults |-> [ auth |-> FALSE, order |-> FALSE, catalog |-> FALSE,
                        store |-> FALSE, webhook |-> FALSE, report |-> FALSE ] ]

\* no test of the testing tab has been called
NoTestRun == [ op |-> "none", blocked |-> FALSE, requests |-> <<>>, results |-> <<>>,
               before |-> NewIntegrationTester.testResults, stored |-> Absent ]

InitTestIdle ==
    /\ integrationTester = NewIntegrationTester
    /\ testRun = NoTestRun
    /\ pendingCalls = <<>>

InitAuthIdle ==
    /\ apiClient = NewAPIClient
    /\ authManager = NewAuthenticationManager
    /\ clock = 0
    /\ apiCall = NoApiCall

InitRestIdle == login = NoLogin /\ server = NoServer /\ InitAuthIdle /\ InitTestIdle

(***************************************************************************)
(* What the storage can hold at start-up: nothing, or what an earlier      *)
(* session saved with saveData, whose series are as long as that session   *)
(* made them, up to the caps.                                              *)
(***************************************************************************)
StoredLogs(n) == [i \in 1..n |-> [id |-> i, level |-> "info", module |-> "TalabatPOSApp"]]

StoredSeries(n, v) == [i \in 1..n |-> Point(v)]

StoredMetrics(n) ==
    [ responseTime |-> StoredSeries(n, 1),
      successRate |-> StoredSeries(n, Rate(1, 1)),
      errorRate |-> StoredSeries(n, Rate(0, 1)),
      activeOrders |-> 0, systemStatus |-> "operational" ]

EmptyStorage ==
    [ logs |-> Absent, metrics |-> Absent,
      scheduled_reports |-> Absent, report_history |-> Absent, config |-> Absent,
      talabat_pos_auth |-> Absent, talabat_pos_test_results |-> Absent ]

FilledStorage ==
    { [EmptyStorage EXCEPT !.logs = Stored(StoredLogs(n)),
                           !.metrics = Stored(StoredMetrics(k))] :
        n \in {maxLogEntries - 1, maxLogEntries},
        k \in {maxMetricPoints - 1, maxMetricPoints} }

NoneCompleted == [ok |-> 0, failed |-> 0, elapsed |-> 0]

\* the report side of the page before any report is asked for
InitRepIdle ==
    /\ reportsManager = NewReportsManager(EmptyStorage)
    /\ pendingReports = <<>>
    /\ page = NewPage
    /\ lastReport = Absent
    /\ reportCalls = NoCalls

InitMon ==
    /\ localStorage \in {EmptyStorage} \cup FilledStorage
    /\ monitoringManager = Construct(localStorage)
    /\ activeIntervals = startMonitoringHandles(loadStoredData(NewMonitoringManager, localStorage), {})
    /\ apiCallTracker = {}
    /\ budget = IF localStorage = EmptyStorage THEN MaxOpsFresh ELSE MaxOpsStored
    /\ completed = NoneCompleted
    /\ InitRepIdle
    /\ InitRestIdle
    /\ InitCfgIdle
    /\ InitPureIdle

Spend == budget > 0 /\ budget' = budget - 1

\* any module logging through window.monitoringManager.addLog
AddLog ==
    /\ Spend
    /\ \E level \in Levels :
          monitoringManager' = addLog(monitoringManager, level, "TalabatPOSApp")
    /\ UNCHANGED <<apiCallTracker, activeIntervals, localStorage, completed>>

\* the apiCallStart event
TrackAPICallStart ==
    /\ Spend
    /\ \E callId \in CallIds :
          /\ apiCallTracker' = apiCallTracker \cup {callId}
          /\ monitoringManager' = trackAPICallStart(monitoringManager)
    /\ UNCHANGED <<activeIntervals, localStorage, completed>>

\* the apiCallEnd event
TrackAPICallEnd ==
    /\ Spend
    /\ \E callId \in CallIds, success \in BOOLEAN, responseTime \in ElapsedTimes :
          LET tracked == callId \in apiCallTracker IN
          /\ monitoringManager' =
                trackAPICallEnd(monitoringManager, tracked, success, responseTime)
          /\ apiCallTracker' = apiCallTracker \ {callId}
          /\ completed' =
                IF tracked
                THEN [ ok |-> completed.ok + (IF success THEN 1 ELSE 0),
                       failed |-> completed.failed + (IF success THEN 0 ELSE 1),
                       elapsed |-> completed.elapsed + responseTime ]
                ELSE completed
    /\ UNCHANGED <<activeIntervals, localStorage>>

\* one firing of the 5-second interval: collectMetrics, updateDashboard, saveData
IntervalTick ==
    /\ Spend
    /\ activeIntervals # {}
    /\ \E authenticated \in BOOLEAN, hasMemory \in BOOLEAN :
          /\ monitoringManager' =
                collectMetrics(monitoringManager, authenticated,
                               IF authenticated THEN 9 ELSE 0, hasMemory)
          /\ localStorage' = saveData(monitoringManager', localStorage)
    /\ UNCHANGED <<apiCallTracker, activeIntervals, completed>>

StartMonitoring ==
    /\ Spend
    /\ monitoringManager' = startMonitoring(monitoringManager, activeIntervals)
    /\ activeIntervals' = startMonitoringHandles(monitoringManager, activeIntervals)
    /\ UNCHANGED <<apiCallTracker, localStorage, completed>>

StopMonitoring ==
    /\ Spend
    /\ monitoringManager' = stopMonitoring(monitoringManager)
    /\ activeIntervals' = stopMonitoringHandles(monitoringManager, activeIntervals)
    /\ UNCHANGED <<apiCallTracker, localStorage, completed>>

ExportLogs ==
    /\ Spend
    /\ monitoringManager' = exportLogs(monitoringManager)
    /\ UNCHANGED <<apiCallTracker, activeIntervals, localStorage, completed>>

ClearLogs ==
    /\ Spend
    /\ monitoringManager' = clearLogs(monitoringManager)
    /\ localStorage' = clearLogsSaved(monitoringManager, localStorage)
    /\ UNCHANGED <<apiCallTracker, activeIntervals, completed>>

\* the page is loaded again: a new window, a new manager built from the storage
Reload ==
    /\ Spend
    /\ monitoringManager' = Construct(localStorage)
    /\ activeIntervals' =
          startMonitoringHandles(loadStoredData(NewMonitoringManager, localStorage), {})
    /\ apiCallTracker' = {}
    /\ completed' = NoneCompleted
    /\ UNCHANGED localStorage

NextMon ==
    /\ UNCHANGED <<restOnly, repOnly, pureOnly, cfgOnly>>
    /\ \/ AddLog
       \/ TrackAPICallStart
       \/ TrackAPICallEnd
       \/ IntervalTick
       \/ StartMonitoring
       \/ StopMonitoring
       \/ ExportLogs
       \/ ClearLogs
       \/ Reload

SpecMon == InitMon /\ [][NextMon]_vars

(***************************************************************************)
(* The reports page: generateReport runs in two steps around its           *)
(* await simulateApiCall(2000); scheduleReport has nothing to wait for.    *)
(***************************************************************************)
\* what the report form can hold when a button is pressed
ReportParameters ==
    [ fromDate : {MissingDate, DateAt(0)},
      toDate : {DateAt(0), DateAt(MaxRangeTicks), DateAt(maxRangeDays * TicksPerDay + 1)},
      type : TemplateKeys \cup ObjectPrototypeKeys \cup {"weekly"},
      format : {"json", "xml"} ]

\* Math.floor(Math.random() * 20) + 10 and Math.floor(Math.random() * 5) + 1:
\* the ends of both ranges
OrdersPerDay == {10, 29}
CancelledPerDay == {1, 5}

\* the page as loaded with nothing in localStorage
InitMonIdle ==
    /\ localStorage = EmptyStorage
    /\ monitoringManager = Construct(localStorage)
    /\ activeIntervals = startMonitoringHandles(loadStoredData(NewMonitoringManager, localStorage), {})
    /\ apiCallTracker = {}
    /\ completed = NoneCompleted

InitRep ==
    /\ InitMonIdle
    /\ budget = MaxReportOps
    /\ InitRepIdle
    /\ InitRestIdle
    /\ InitCfgIdle
    /\ InitPureIdle

Called(rejected) ==
    reportCalls' = [ made |-> reportCalls.made + 1,
                     rejected |-> reportCalls.rejected + (IF rejected THEN 1 ELSE 0) ]

\* generateReport up to its await
GenerateReportBegin ==
    /\ Spend
    /\ \E params \in ReportParameters :
         LET result == validateReportParameters(params)
         IN  IF result = "valid"
             THEN /\ page' = [page EXCEPT !.loading = TRUE]
                  /\ pendingReports' = Append(pendingReports, params)
                  /\ Called(FALSE)
                  /\ UNCHANGED monitoringManager
             ELSE /\ page' = generateReportFailed(page, result)
                  /\ monitoringManager' = logActivity(monitoringManager, "error")
                  /\ Called(TRUE)
                  /\ UNCHANGED pendingReports
    /\ UNCHANGED <<restOnly, reportsManager, lastReport, localStorage, monOnly, pureOnly, cfgOnly>>

\* generateReport after its await: the timers run out in the order they were set
GenerateReportFinish ==
    /\ pendingReports # <<>>
    /\ pendingReports' = Tail(pendingReports)
    /\ UNCHANGED <<restOnly, reportCalls, budget, monOnly, pureOnly, cfgOnly>>
    /\ monitoringManager' = logActivity(monitoringManager, "success")
    /\ \E ordersPerDay \in OrdersPerDay, cancelledPerDay \in CancelledPerDay,
          seed \in 0..MaxSeed :
         LET params == Head(pendingReports)
             reportData == createReportData(params, monitoringManager,
                                            ordersPerDay, cancelledPerDay, seed)
             reportRecord == ReportRecord(params, reportData)
         IN  /\ reportsManager' =
                    [reportsManager EXCEPT !.reportHistory = Append(@, reportRecord)]
             /\ localStorage' = saveReportHistory(reportsManager', localStorage)
             /\ page' = showReportResults(
                            deliverReport([page EXCEPT !.loading = FALSE], params),
                            reportRecord)
             /\ lastReport' = Stored([ params |-> params, data |-> reportData,
                                       ordersPerDay |-> ordersPerDay,
                                       cancelledPerDay |-> cancelledPerDay ])

\* scheduleReport
ScheduleReport ==
    /\ Spend
    /\ \E params \in ReportParameters :
         LET result == validateReportParameters(params)
         IN  IF result = "valid"
             THEN /\ reportsManager' =
                        [reportsManager EXCEPT
                            !.scheduledReports = Append(@, ScheduledReport(params))]
                  /\ localStorage' = saveScheduledReports(reportsManager', localStorage)
                  /\ page' = showResults(page,
                                << Passed("scheduled"), Passed(params.type),
                                   Passed("weekly"), Passed("next run"),
                                   Passed("notifications") >>)
                  /\ monitoringManager' = logActivity(monitoringManager, "success")
                  /\ Called(FALSE)
             ELSE /\ page' = scheduleReportFailed(page, result)
                  /\ monitoringManager' = logActivity(monitoringManager, "error")
                  /\ Called(TRUE)
                  /\ UNCHANGED <<reportsManager, localStorage>>
    /\ UNCHANGED <<restOnly, pendingReports, lastReport, monOnly, pureOnly, cfgOnly>>

NextRep ==
    \/ GenerateReportBegin
    \/ GenerateReportFinish
    \/ ScheduleReport

SpecRep == InitRep /\ [][NextRep]_vars

(***************************************************************************)
(* validateReportParameters on its own, over every combination of dates,   *)
(* type and format.                                                        *)
(***************************************************************************)
ValidatedParameters ==
    [ fromDate : {MissingDate, InvalidDate} \cup {DateAt(t) : t \in 0..MaxFromTick},
      toDate : {MissingDate, InvalidDate}
               \cup {DateAt(t) : t \in 0..MaxFromTick}
               \cup {DateAt(maxRangeDays * TicksPerDay + t) : t \in 0..MaxFromTick},
      type : TemplateKeys \cup ObjectPrototypeKeys \cup {"weekly", ""},
      format : ReportFormats \cup {"xml", ""} ]

InitValidate ==
    /\ InitMonIdle
    /\ budget = 0
    /\ InitRepIdle
    /\ InitRestIdle
    /\ InitCfgIdle
    /\ csv = NoCsv
    /\ configValidation = NoConfigValidation
    /\ validation \in
         { [ params |-> p, result |-> "idle" ] : p \in ValidatedParameters }

Validate ==
    /\ validation.result = "idle"
    /\ validation' =
         [validation EXCEPT !.result = validateReportParameters(validation.params)]
    /\ UNCHANGED <<restOnly, monitoringManager, localStorage, budget, monOnly, repOnly, cfgOnly, csv, configValidation>>

SpecValidate == InitValidate /\ [][Validate]_vars

(***************************************************************************)
(* formatAsCSV on its own, over lists of records of every shape.           *)
(***************************************************************************)
InitCsv ==
    /\ InitMonIdle
    /\ budget = 0
    /\ InitRepIdle
    /\ InitRestIdle
    /\ InitCfgIdle
    /\ validation = NoValidation
    /\ configValidation = NoConfigValidation
    /\ csv \in { [ records |-> records, state |-> "idle", text |-> <<>> ] :
                   records \in RecordLists }

FormatAsCSV ==
    /\ csv.state = "idle"
    /\ csv' = [csv EXCEPT !.state = "formatted", !.text = formatAsCSV(csv.records)]
    /\ UNCHANGED <<restOnly, monitoringManager, localStorage, budget, monOnly, repOnly, cfgOnly, validation, configValidation>>

SpecCsv == InitCsv /\ [][FormatAsCSV]_vars

(***************************************************************************)
(* The configuration page: the form, the save button, the import of a      *)
(* file.                                                                   *)
(***************************************************************************)
Ab == <<"A", "b">>
HttpsUrl == HttpsPrefix \o <<"a">>
HttpUrl == <<"h", "t", "t", "p", ":", "/", "/", "a">>

\* what the form and a configuration file can hold
FormRecords ==
    [ integrationName : {Ab, <<"A", "1">>},
      integrationCode : {<<"a", "-", "b">>},
      baseUrl : {HttpsUrl, HttpUrl},
      pluginUsername : {<<"u">>, <<"v">>},
      pluginPassword : {<<"p">>, <<>>} ]

\* a file to import: text JSON.parse throws on, or the value it parses to
ImportFiles ==
    {[parsed |-> FALSE, config |-> Null], [parsed |-> TRUE, config |-> Null]}
    \cup { [parsed |-> TRUE, config |-> Config(record)] : record \in FormRecords }

\* a configuration an earlier session saved: one that was valid when saved
SavedConfigs ==
    { record \in FormRecords : ValidationErrors(record) = <<>> /\ record.pluginUsername = <<"u">> }

InitCfg ==
    /\ localStorage \in
         {EmptyStorage} \cup { [EmptyStorage EXCEPT !.config = Stored(record)] :
                                 record \in SavedConfigs }
    /\ monitoringManager = Construct(localStorage)
    /\ activeIntervals = startMonitoringHandles(loadStoredData(NewMonitoringManager, localStorage), {})
    /\ apiCallTracker = {}
    /\ completed = NoneCompleted
    /\ budget = MaxConfigOps
    /\ InitRepIdle
    /\ InitRestIdle
    /\ InitPureIdle
    /\ InitCfgOver(localStorage)

ConfigCalled(op, input) ==
    configCalls' = [ n |-> configCalls.n + 1, op |-> op, input |-> input ]

\* the user edits the form and the change event runs onConfigurationChange
ChangeForm ==
    /\ Spend
    /\ \E record \in FormRecords :
         configPage' = [configPage EXCEPT !.form = record, !.unsaved = TRUE]
    /\ validationTimers' = validationTimers + 1
    /\ UNCHANGED <<configManager, configCalls, monitoringManager, localStorage>>

\* the timer of onConfigurationChange: validateConfigurationSilently
ValidateConfigurationSilently ==
    /\ validationTimers > 0
    /\ validationTimers' = validationTimers - 1
    /\ configPage' =
         [configPage EXCEPT !.section =
            IF validateConfiguration(configManager, Config(configPage.form)).isValid
            THEN "valid" ELSE "invalid"]
    /\ UNCHANGED <<configManager, configCalls, monitoringManager, localStorage, budget>>

\* the global validateConfiguration(): the outcome goes to #auth-results
ValidateForm ==
    /\ Spend
    /\ LET validation_ == validateConfiguration(configManager, Config(configPage.form))
       IN  configPage' =
             [configPage EXCEPT !.results =
                IF validation_.isValid THEN <<"Configuration is valid">>
                ELSE validation_.errors]
    /\ UNCHANGED <<configManager, configCalls, validationTimers, monitoringManager,
                   localStorage>>

\* the global saveConfiguration()
SaveConfiguration ==
    /\ Spend
    /\ LET formData == Config(configPage.form)
           validation_ == validateConfiguration(configManager, formData)
       IN  /\ ConfigCalled("save", formData)
           /\ IF validation_.isValid
              THEN /\ configManager' = saveConfigurationMerged(configManager, formData)
                   /\ localStorage' = saveConfigurationStored(configManager, formData, localStorage)
                   /\ monitoringManager' = configLogActivity(monitoringManager)
                   /\ configPage' =
                        IF saveConfigurationSucceeds(configManager, formData)
                        THEN [configPage EXCEPT !.message = "success", !.unsaved = FALSE]
                        ELSE [configPage EXCEPT !.message = "error"]
              ELSE /\ configPage' = [configPage EXCEPT !.message = "error",
                                                       !.results = validation_.errors]
                   /\ UNCHANGED <<configManager, localStorage, monitoringManager>>
    /\ UNCHANGED validationTimers

\* handleConfigImport with importConfiguration(file) and its reader.onload
ImportConfiguration ==
    /\ Spend
    /\ \E file \in ImportFiles :
         LET importedConfig == file.config
             validation_ == validateConfiguration(configManager, importedConfig)
             imported == [configManager EXCEPT !.currentConfig = importedConfig]
         IN  /\ ConfigCalled("import", importedConfig)
             /\ IF file.parsed /\ ~validation_.threw /\ validation_.isValid
                THEN /\ configManager' = imported
                     /\ localStorage' = saveConfigurationStored(imported, Null, localStorage)
                     /\ monitoringManager' =
                            configLogActivity(configLogActivity(monitoringManager))
                     /\ configPage' =
                            [configPage EXCEPT !.form = populateForm(imported, @),
                                               !.message = "success"]
                ELSE /\ configPage' = [configPage EXCEPT !.message = "error"]
                     /\ UNCHANGED <<configManager, localStorage, monitoringManager>>
    /\ UNCHANGED validationTimers

NextCfg ==
    /\ UNCHANGED <<restOnly, monOnly, repOnly, pureOnly>>
    /\ \/ ChangeForm
       \/ ValidateConfigurationSilently
       \/ ValidateForm
       \/ SaveConfiguration
       \/ ImportConfiguration

SpecCfg == InitCfg /\ [][NextCfg]_vars

(***************************************************************************)
(* validateConfiguration on its own, over records of every shape.          *)
(***************************************************************************)
ValidatedConfigs ==
    [ integrationName :
        { <<>>, <<"A">>, Ab, <<"A", " ", "b">>, <<"A", "b", " ">>, <<" ", "b">>,
          <<"A", "1">> },
      integrationCode :
        { <<>>, <<"a", "-", "b">>, <<"A", "-", "b">>, <<"a", "1">>, <<"-">> },
      baseUrl :
        { <<>>, HttpsUrl, HttpUrl,
          <<"H", "T", "T", "P", "S", ":", "/", "/", "a">>,
          <<" ">> \o HttpsUrl,
          HttpsPrefix,
          HttpsPrefix \o <<" ", "a">>,
          <<"h", "t", "t", "p", "s", ":", "a">>,
          <<"a", ".", "b">>,
          <<"f", "t", "p", ":", "/", "/", "a">> },
      pluginUsername : {<<>>, <<"u">>},
      pluginPassword : {<<>>, <<"p">>} ]

InitCfgValidate ==
    /\ InitMonIdle
    /\ budget = 0
    /\ InitRepIdle
    /\ InitRestIdle
    /\ InitCfgIdle
    /\ validation = NoValidation
    /\ csv = NoCsv
    /\ configValidation \in
         { [NoConfigValidation EXCEPT !.config = record] : record \in ValidatedConfigs }

ValidateConfiguration ==
    /\ configValidation.state = "idle"
    /\ LET validation_ == validateConfiguration(configManager, Config(configValidation.config))
       IN  configValidation' =
             [configValidation EXCEPT !.state = "validated",
                                      !.isValid = validation_.isValid,
                                      !.errors = validation_.errors]
    /\ UNCHANGED <<restOnly, monitoringManager, localStorage, budget, monOnly, repOnly, cfgOnly,
                   validation, csv>>

SpecCfgValidate == InitCfgValidate /\ [][ValidateConfiguration]_vars

(***************************************************************************)
(* The servers: TalabatPOSServer (src/unnamed/part_004, SQLite),           *)
(* TalabatPOSVercelServer (src/unnamed/part_005) and the serverless        *)
(* function (src/api/index.js), both with in-memory storage.               *)
(***************************************************************************)
\* !value for a field of a JSON body: undefined and '' are falsy
Falsy(field) == field = Absent \/ field = Stored("")

\* the keys of this.talabatAPI
Environments == {"staging", "production"}

\* generateMockToken: base64 of {username, timestamp, random}
generateMockToken(username) == <<"base64", username>>

\* TalabatPOSServer.authenticateUser.  this.talabatAPI[environment] is
\* undefined for an unknown environment; reading its loginEndpoint throws in
\* the inner try and again in its catch, and the outer catch answers 401.
authenticateUser(body) ==
    LET environment == IF body.environment = Absent THEN "staging"
                       ELSE body.environment[1]
    IN  IF Falsy(body.username) \/ Falsy(body.password)
        THEN [ status |-> 400,
               json |-> [error |-> "Username and password are required"] ]
        ELSE IF environment \notin Environments \cup ObjectPrototypeKeys
        THEN [ status |-> 401, json |-> [error |-> "Authentication failed"] ]
        ELSE [ status |-> 200,
               json |-> [ success |-> TRUE,
                          data |-> [ access_token |-> generateMockToken(body.username[1]),
                                     refresh_token |-> generateMockToken(body.username[1] \o "_refresh"),
                                     token_type |-> "Bearer",
                                     expires_in |-> 3600,
                                     scope |-> "pos_integration" ] ] ]

\* TalabatPOSVercelServer: app.post('/api/auth/login')
vercelLogin(body) ==
    IF ~Falsy(body.username) /\ ~Falsy(body.password)
    THEN [ status |-> 200,
           json |-> [ success |-> TRUE,
                      data |-> [ access_token |-> generateMockToken(body.username[1]),
                                 refresh_token |-> generateMockToken(body.username[1] \o "_refresh"),
                                 token_type |-> "Bearer",
                                 expires_in |-> 3600 ] ] ]
    ELSE [ status |-> 400,
           json |-> [success |-> FALSE, error |-> "Username and password required"] ]

\* the bodies a client can post to /api/auth/login
LoginBodies ==
    [ username : {Absent, Stored(""), Stored("u")},
      password : {Absent, Stored(""), Stored("p")},
      environment : {Absent, Stored("staging"), Stored("production"),
                     Stored("development"), Stored("constructor")} ]

InitLogin ==
    /\ InitMonIdle
    /\ budget = 0
    /\ InitRepIdle
    /\ InitCfgIdle
    /\ InitPureIdle
    /\ server = NoServer
    /\ InitAuthIdle
    /\ InitTestIdle
    /\ login \in { [ variant |-> variant, body |-> body, state |-> "idle", response |-> <<>> ] :
                      variant \in {"TalabatPOSServer", "TalabatPOSVercelServer"},
                      body \in LoginBodies }

\* POST /api/auth/login
Login ==
    /\ login.state = "idle"
    /\ login' = [login EXCEPT !.state = "answered",
                              !.response = IF login.variant = "TalabatPOSServer"
                                           THEN authenticateUser(login.body)
                                           ELSE vercelLogin(login.body)]
    /\ UNCHANGED <<monitoringManager, localStorage, budget, monOnly, repOnly, cfgOnly,
                   pureOnly, server, authOnly, testOnly>>

SpecLogin == InitLogin /\ [][Login]_vars

(***************************************************************************)
(* The configuration endpoints.  A row of the configurations table, an     *)
(* element of storage.configurations and a configuration in a response     *)
(* are records of one shape, a column that is not there being Absent.      *)
(* Of the five required fields base_url and plugin_username are taken to   *)
(* be in every body; id, created_at and updated_at are not sent.           *)
(***************************************************************************)
\* crypto.createHash('sha256').update(plugin_password).digest('hex')
sha256(text) == <<"sha256", text>>

\* delete configuration.plugin_password_hash
WithoutHash(row) == [row EXCEPT !.plugin_password_hash = Absent]

\* integration_code TEXT UNIQUE NOT NULL: the INSERT or UPDATE that would
\* leave the code in two rows (active or not) fails
BreaksUnique(rows, id, code) ==
    \E i \in 1..Len(rows) : rows[i].id # id /\ rows[i].integration_code = Stored(code)

RowsWithId(rows, id) == { i \in 1..Len(rows) : rows[i].id = id }

Answer(rows, status, returned) ==
    [ rows |-> rows, response |-> [status |-> status, data |-> returned] ]

\* TalabatPOSServer.createConfiguration
createConfiguration(rows, body) ==
    IF Falsy(body.integration_name) \/ Falsy(body.integration_code)
          \/ Falsy(body.plugin_password)
    THEN Answer(rows, 400, <<>>)
    ELSE IF BreaksUnique(rows, 0, body.integration_code[1])
    THEN Answer(rows, 500, <<>>)
    ELSE LET row == [ id |-> Len(rows) + 1,
                      integration_name |-> body.integration_name,
                      integration_code |-> body.integration_code,
                      plugin_password |-> Absent,
                      plugin_password_hash |-> Stored(sha256(body.plugin_password[1])),
                      is_active |-> TRUE ]
         IN  Answer(Append(rows, row), 201, <<WithoutHash(row)>>)

\* TalabatPOSServer.getConfiguration: WHERE id = ? AND is_active = 1
getConfiguration(rows, id) ==
    LET found == { i \in RowsWithId(rows, id) : rows[i].is_active }
    IN  IF found = {} THEN Answer(rows, 404, <<>>)
        ELSE Answer(rows, 200, <<WithoutHash(rows[CHOOSE i \in found : TRUE])>>)

\* TalabatPOSServer.updateConfiguration: every key of the body becomes a
\* column of the UPDATE; an empty plugin_password stays a key, and there is no
\* such column; the SELECT after the UPDATE has no is_active condition, and
\* deleting a property of the undefined it gives for an unknown id throws
updateConfiguration(rows, id, body) ==
    LET hashed == ~Falsy(body.plugin_password)
        updated(row) ==
            [row EXCEPT
               !.integration_name = IF body.integration_name # Absent
                                    THEN body.integration_name ELSE @,
               !.integration_code = IF body.integration_code # Absent
                                    THEN body.integration_code ELSE @,
               !.plugin_password_hash = IF hashed
                                        THEN Stored(sha256(body.plugin_password[1]))
                                        ELSE @,
               !.is_active = IF body.is_active # Absent THEN body.is_active[1] ELSE @]
        after == [ i \in 1..Len(rows) |->
                     IF rows[i].id = id THEN updated(rows[i]) ELSE rows[i] ]
    IN  IF body.plugin_password = Stored("") THEN Answer(rows, 500, <<>>)
        ELSE IF /\ body.integration_code # Absent
                /\ RowsWithId(rows, id) # {}
                /\ BreaksUnique(rows, id, body.integration_code[1])
        THEN Answer(rows, 500, <<>>)
        ELSE IF RowsWithId(rows, id) = {} THEN Answer(rows, 500, <<>>)
        ELSE Answer(after, 200,
                    <<WithoutHash(after[CHOOSE i \in RowsWithId(rows, id) : TRUE])>>)

\* TalabatPOSServer.deleteConfiguration: SET is_active = 0
deleteConfiguration(rows, id) ==
    Answer([ i \in 1..Len(rows) |->
               IF rows[i].id = id THEN [rows[i] EXCEPT !.is_active = FALSE] ELSE rows[i] ],
           200, <<>>)

IsActive(row) == row.is_active

\* ORDER BY created_at DESC over rows kept in the order they were inserted
NewestFirst(rows) == [ i \in 1..Len(rows) |-> rows[Len(rows) + 1 - i] ]

\* TalabatPOSServer.listConfigurations: SELECT id, integration_name,
\* integration_code, ... WHERE is_active = 1 ORDER BY created_at DESC
listConfigurations(rows) ==
    LET active == NewestFirst(SelectSeq(rows, IsActive))
    IN  Answer(rows, 200, [ i \in 1..Len(active) |-> WithoutHash(active[i]) ])

\* src/api/index.js: storage.configurations at start
DemoConfiguration ==
    [ id |-> 1, integration_name |-> Stored("Demo POS UAE"),
      integration_code |-> Stored("demo-pos-ae"),
      plugin_password |-> Absent, plugin_password_hash |-> Absent, is_active |-> TRUE ]

\* the id of a new element of the in-memory storage, { id: length + 1,
\* ...req.body, ... }: an id in the body replaces the one counted
SpreadId(stored, body) ==
    IF "id" \in DOMAIN body /\ body.id # Absent THEN body.id[1] ELSE Len(stored) + 1

\* src/api/index.js: app.post('/api/configurations'): the body is spread into
\* the new element as it is and the element is pushed and returned
postConfigurations(rows, body) ==
    LET config == [ id |-> SpreadId(rows, body),
                    integration_name |-> body.integration_name,
                    integration_code |-> body.integration_code,
                    plugin_password |-> body.plugin_password,
                    plugin_password_hash |-> Absent,
                    is_active |-> TRUE ]
    IN  Answer(Append(rows, config), 200, <<config>>)

\* src/api/index.js: app.get('/api/configurations')
getConfigurations(rows) ==
    [ rows |-> rows, response |-> [status |-> 200, data |-> rows, count |-> Len(rows)] ]

\* the log the in-memory storage starts with
FirstLog == [ id |-> 1, level |-> Stored("info"), message |-> Stored("running on Vercel") ]

\* src/api/index.js: app.post('/api/logs')
postLogs(logs, body) ==
    LET log == [ id |-> SpreadId(logs, body), level |-> body.level,
                 message |-> body.message ]
    IN  [ logs |-> Append(logs, log), response |-> [status |-> 200, data |-> <<log>>] ]

\* src/api/index.js: app.get('/api/logs')
getLogs(logs) ==
    [ logs |-> logs, response |-> [status |-> 200, data |-> logs, count |-> Len(logs)] ]

\* the bodies a client can send with a create or an update
ConfigurationBodies ==
    [ integration_name : {Absent, Stored("Demo POS UAE")},
      integration_code : {Absent, Stored("demo-pos-ae"), Stored("other-pos-ae")},
      plugin_password : {Absent, Stored(""), Stored("secret")},
      is_active : {Absent, Stored(TRUE)} ]

InitSrv ==
    /\ InitMonIdle
    /\ budget = MaxServerOps
    /\ InitRepIdle
    /\ InitCfgIdle
    /\ InitPureIdle
    /\ login = NoLogin
    /\ InitAuthIdle
    /\ InitTestIdle
    /\ server \in { [NoServer EXCEPT !.variant = "TalabatPOSServer"],
                     [NoServer EXCEPT !.variant = "api/index.js",
                                      !.configurations = <<DemoConfiguration>>,
                                      !.logs = <<FirstLog>>] }

\* the server after a request is answered
Answered(request, answer) ==
    server' = [server EXCEPT !.configurations = answer.rows,
                             !.request = request,
                             !.response = Stored(answer.response),
                             !.deleted =
                                 IF /\ request.method = "DELETE"
                                    /\ RowsWithId(server.configurations, request.id) # {}
                                 THEN @ \cup {request.id} ELSE @]

\* POST /api/config on TalabatPOSServer, POST /api/configurations on api/index.js
CreateConfiguration ==
    /\ Spend
    /\ \E body \in ConfigurationBodies :
          Answered([method |-> "POST", id |-> 0, body |-> Stored(body)],
                   IF server.variant = "TalabatPOSServer"
                   THEN createConfiguration(server.configurations, body)
                   ELSE postConfigurations(server.configurations, body))

\* GET /api/config/:id
GetConfiguration ==
    /\ Spend
    /\ server.variant = "TalabatPOSServer"
    /\ \E id \in 1..MaxConfigurationId :
          Answered([method |-> "GET", id |-> id, body |-> Absent],
                   getConfiguration(server.configurations, id))

\* PUT /api/config/:id
UpdateConfiguration ==
    /\ Spend
    /\ server.variant = "TalabatPOSServer"
    /\ \E id \in 1..MaxConfigurationId, body \in ConfigurationBodies :
          Answered([method |-> "PUT", id |-> id, body |-> Stored(body)],
                   updateConfiguration(server.configurations, id, body))

\* DELETE /api/config/:id
DeleteConfiguration ==
    /\ Spend
    /\ server.variant = "TalabatPOSServer"
    /\ \E id \in 1..MaxConfigurationId :
          Answered([method |-> "DELETE", id |-> id, body |-> Absent],
                   deleteConfiguration(server.configurations, id))

\* GET /api/configs on TalabatPOSServer, GET /api/configurations on api/index.js
ListConfigurations ==
    /\ Spend
    /\ Answered([method |-> "GET", id |-> 0, body |-> Absent],
                IF server.variant = "TalabatPOSServer"
                THEN listConfigurations(server.configurations)
                ELSE getConfigurations(server.configurations))

NextSrv ==
    /\ UNCHANGED <<monitoringManager, localStorage, monOnly, repOnly, cfgOnly, pureOnly,
                   login, authOnly, testOnly>>
    /\ \/ CreateConfiguration
       \/ GetConfiguration
       \/ UpdateConfiguration
       \/ DeleteConfiguration
       \/ ListConfigurations

SpecSrv == InitSrv /\ [][NextSrv]_vars

(***************************************************************************)
(* The in-memory server (src/api/index.js) on its own: the configurations  *)
(* and the logs of its storage, and bodies that may carry an id.           *)
(***************************************************************************)
\* the bodies a client can send: any JSON object, with an id or without
StorageBodies ==
    [ id : {Absent, Stored(1), Stored(MaxConfigurationId + 1)},
      integration_name : {Absent, Stored("Demo POS UAE")},
      integration_code : {Stored("demo-pos-ae")},
      plugin_password : {Absent},
      level : {Absent, Stored("error")},
      message : {Stored("m")} ]

InitStorage ==
    /\ InitMonIdle
    /\ budget = MaxServerOps
    /\ InitRepIdle
    /\ InitCfgIdle
    /\ InitPureIdle
    /\ login = NoLogin
    /\ InitAuthIdle
    /\ InitTestIdle
    /\ server = [NoServer EXCEPT !.variant = "api/index.js",
                                 !.configurations = <<DemoConfiguration>>,
                                 !.logs = <<FirstLog>>]

\* the server after a request for its logs is answered
AnsweredLogs(request, answer) ==
    server' = [server EXCEPT !.logs = answer.logs,
                             !.request = request,
                             !.response = Stored(answer.response)]

\* POST /api/configurations
PostConfigurations ==
    /\ Spend
    /\ \E body \in StorageBodies :
          Answered([method |-> "POST", path |-> "/api/configurations", id |-> 0,
                    body |-> Stored(body)],
                   postConfigurations(server.configurations, body))

\* GET /api/configurations
GetConfigurations ==
    /\ Spend
    /\ Answered([method |-> "GET", path |-> "/api/configurations", id |-> 0,
                 body |-> Absent],
                getConfigurations(server.configurations))

\* POST /api/logs
PostLogs ==
    /\ Spend
    /\ \E body \in StorageBodies :
          AnsweredLogs([method |-> "POST", path |-> "/api/logs", id |-> 0,
                        body |-> Stored(body)],
                       postLogs(server.logs, body))

\* GET /api/logs
GetLogs ==
    /\ Spend
    /\ AnsweredLogs([method |-> "GET", path |-> "/api/logs", id |-> 0, body |-> Absent],
                    getLogs(server.logs))

NextStorage ==
    /\ UNCHANGED <<monitoringManager, localStorage, monOnly, repOnly, cfgOnly, pureOnly,
                   login, authOnly, testOnly>>
    /\ \/ PostConfigurations
       \/ GetConfigurations
       \/ PostLogs
       \/ GetLogs

SpecStorage == InitStorage /\ [][NextStorage]_vars

(***************************************************************************)
(* TalabatAPIClient (src/unnamed/part_001).  A method works on the client, *)
(* the localStorage and the monitoring log together: the three are passed  *)
(* along as one record.  A token is named by the time it was issued at.    *)
(***************************************************************************)
\* expires_in of the login and refresh responses: 3600 s, in five-minute steps
expiresIn == 12

World(client, ls, m) == [apiClient |-> client, localStorage |-> ls, monitoringManager |-> m]

\* TalabatAPIClient.logActivity
clientLogActivity(w, level) ==
    [w EXCEPT !.monitoringManager = addLog(@, level, "TalabatAPIClient")]

\* clearAuthData
clearAuthData(w) ==
    clientLogActivity([w EXCEPT !.apiClient.accessToken = Absent,
                                !.apiClient.refreshToken = Absent,
                                !.localStorage.talabat_pos_auth = Absent], "info")

\* loadAuthData: the stored tokens are taken, and dropped again if expired
loadAuthData(w, now) ==
    IF w.localStorage.talabat_pos_auth = Absent THEN w
    ELSE LET parsed == w.localStorage.talabat_pos_auth[1]
             loaded == [w EXCEPT !.apiClient.accessToken = Stored(parsed.accessToken),
                                 !.apiClient.refreshToken = Stored(parsed.refreshToken)]
         IN  IF now > parsed.expiresAt THEN clearAuthData(loaded) ELSE loaded

\* the data of a successful login or refresh response
AuthResponse(now) == [access_token |-> now, refresh_token |-> now, expires_in |-> expiresIn]

\* saveAuthData
saveAuthData(w, authResponse, now) ==
    LET authData == [ accessToken |-> authResponse.access_token,
                      refreshToken |-> authResponse.refresh_token,
                      expiresAt |-> now + authResponse.expires_in ]
    IN  clientLogActivity(
            [w EXCEPT !.apiClient.accessToken = Stored(authData.accessToken),
                      !.apiClient.refreshToken = Stored(authData.refreshToken),
                      !.localStorage.talabat_pos_auth = Stored(authData)],
            "success")

\* what fetch and the reading of the response come to: a JSON body with an
\* access_token, a JSON body without one, a text body, a status that is not
\* ok, or a rejection (no network, CORS, a body that does not parse)
FetchOutcomes == {"token", "json", "text", "http_error", "network_error"}

\* makeRequest: this.baseUrl.replace throws when the configuration had no
\* baseUrl, before anything is sent; every error is logged and thrown again
\* the request handed to fetch is kept as the Authorization header it carries
Bearer(accessToken) == <<"Bearer", accessToken>>

\* makeRequest with the header set whenever a token is held
makeRequestAlwaysAuthorized(w, requireAuth, outcome) ==
    LET headers == [ Authorization |-> IF w.apiClient.accessToken # Absent
                                       THEN Stored(Bearer(w.apiClient.accessToken[1]))
                                       ELSE Absent ]
    IN  IF w.apiClient.baseUrl = Absent
        THEN [ w |-> clientLogActivity(w, "error"), threw |-> TRUE, request |-> Absent,
               message |-> "Cannot read properties of undefined (reading 'replace')" ]
        ELSE [ w |-> clientLogActivity(clientLogActivity(w, "info"),
                                       IF outcome \in {"network_error", "http_error"}
                                       THEN "error" ELSE "success"),
               threw |-> outcome \in {"network_error", "http_error"},
               request |-> Stored(headers),
               message |-> IF outcome = "network_error" THEN "Failed to fetch"
                           ELSE IF outcome = "http_error"
                           THEN "HTTP 500: Internal Server Error" ELSE "" ]

makeRequest(w, requireAuth, outcome) ==
    LET headers == [ Authorization |-> IF requireAuth /\ w.apiClient.accessToken # Absent
                                       THEN Stored(Bearer(w.apiClient.accessToken[1]))
                                       ELSE Absent ]
    IN  IF w.apiClient.baseUrl = Absent
        THEN [ w |-> clientLogActivity(w, "error"), threw |-> TRUE, request |-> Absent,
               message |-> "Cannot read properties of undefined (reading 'replace')" ]
        ELSE IF outcome = "network_error"
        THEN [ w |-> clientLogActivity(clientLogActivity(w, "info"), "error"),
               threw |-> TRUE, request |-> Stored(headers), message |-> "Failed to fetch" ]
        ELSE IF outcome = "http_error"
        THEN [ w |-> clientLogActivity(clientLogActivity(w, "info"), "error"),
               threw |-> TRUE, request |-> Stored(headers),
               message |-> "HTTP 500: Internal Server Error" ]
        ELSE [ w |-> clientLogActivity(clientLogActivity(w, "info"), "success"),
               threw |-> FALSE, request |-> Stored(headers), message |-> "" ]

\* what an operation of the client settles to
Resolved(success, error) == [settled |-> "resolved", success |-> success, error |-> error]
Rejected(error) == [settled |-> "rejected", success |-> FALSE, error |-> error]

\* TalabatAPIClient.authenticate
authenticate(w, username, password, outcome, now) ==
    LET failed(w0, message, request) ==
            [ w |-> clientLogActivity(w0, "error"), result |-> Resolved(FALSE, message),
              request |-> request ]
        response == makeRequest(w, FALSE, outcome)
    IN  IF username = <<>> \/ password = <<>>
        THEN failed(w, "Username and password are required", Absent)
        ELSE IF response.threw THEN failed(response.w, response.message, response.request)
        ELSE IF outcome = "token"
        THEN [ w |-> clientLogActivity(saveAuthData(response.w, AuthResponse(now), now),
                                       "success"),
               result |-> Resolved(TRUE, ""), request |-> response.request ]
        ELSE failed(response.w, "Invalid authentication response", response.request)

\* refreshAccessToken
refreshAccessToken(w, outcome, now) ==
    LET failed(w0, message, request) ==
            [ w |-> clearAuthData(clientLogActivity(w0, "error")),
              result |-> Resolved(FALSE, message), request |-> request ]
        response == makeRequest(w, FALSE, outcome)
    IN  IF w.apiClient.refreshToken = Absent
        THEN failed(w, "No refresh token available", Absent)
        ELSE IF response.threw THEN failed(response.w, response.message, response.request)
        ELSE IF outcome = "token"
        THEN [ w |-> clientLogActivity(saveAuthData(response.w, AuthResponse(now), now),
                                       "success"),
               result |-> Resolved(TRUE, ""), request |-> response.request ]
        ELSE failed(response.w, "Invalid refresh response", response.request)

\* testOrderReception, testOrderAcceptance, testOrderRejection,
\* testCatalogImport, testStoreStatusUpdate and generateReport as they would
\* be without their catch
testRequestUncaught(w, outcome) ==
    LET response == makeRequest(w, TRUE, outcome)
    IN  [ w |-> response.w, request |-> response.request,
          result |-> IF response.threw THEN Rejected(response.message)
                     ELSE Resolved(TRUE, "") ]

\* testOrderReception, testOrderAcceptance, testOrderRejection,
\* testCatalogImport, testStoreStatusUpdate and generateReport: one request,
\* whose error is caught and returned
testRequest(w, outcome) ==
    LET response == makeRequest(w, TRUE, outcome)
    IN  [ w |-> response.w, request |-> response.request,
          result |-> IF response.threw THEN Resolved(FALSE, response.message)
                     ELSE Resolved(TRUE, "") ]

TestOperations ==
    {"testOrderReception", "testOrderAcceptance", "testOrderRejection",
     "testCatalogImport", "testStoreStatusUpdate", "generateReport"}

\* the client a call finds: configured with a base URL or with none (a
\* configuration without baseUrl was handed to updateConfig), holding the
\* tokens of a login at time 0 or none
CalledClients ==
    { [ baseUrl |-> baseUrl, accessToken |-> token, refreshToken |-> token ] :
        baseUrl \in {Absent, Stored(HttpsUrl)}, token \in {Absent, Stored(0)} }

InitCall ==
    /\ InitMonIdle
    /\ budget = 0
    /\ InitRepIdle
    /\ InitCfgIdle
    /\ InitPureIdle
    /\ login = NoLogin
    /\ server = NoServer
    /\ InitTestIdle
    /\ authManager = NewAuthenticationManager
    /\ clock = 0
    /\ apiClient \in CalledClients
    /\ apiCall \in
          { [ op |-> op, username |-> username, password |-> password, outcome |-> outcome,
              before |-> apiClient, state |-> "idle", result |-> <<>>, request |-> Absent ] :
              op \in {"authenticate", "refreshAccessToken"} \cup TestOperations,
              username \in {<<>>, <<"u">>}, password \in {<<>>, <<"p">>},
              outcome \in FetchOutcomes }

\* one call of an operation of window.apiClient, run until its promise settles
Call ==
    /\ apiCall.state = "idle"
    /\ LET w == World(apiClient, localStorage, monitoringManager)
           done == IF apiCall.op = "authenticate"
                   THEN authenticate(w, apiCall.username, apiCall.password,
                                     apiCall.outcome, clock)
                   ELSE IF apiCall.op = "refreshAccessToken"
                   THEN refreshAccessToken(w, apiCall.outcome, clock)
                   ELSE testRequest(w, apiCall.outcome)
       IN  /\ apiClient' = done.w.apiClient
           /\ localStorage' = done.w.localStorage
           /\ monitoringManager' = done.w.monitoringManager
           /\ apiCall' = [apiCall EXCEPT !.state = "settled", !.result = Stored(done.result),
                                     !.request = done.request]
    /\ UNCHANGED <<budget, monOnly, repOnly, cfgOnly, pureOnly, login, server, testOnly,
                   authManager, clock>>

SpecCall == InitCall /\ [][Call]_vars

(***************************************************************************)
(* AuthenticationManager (src/unnamed/part_003).  Its methods work on the  *)
(* manager and, through window.apiClient, on the client, the localStorage  *)
(* and the monitoring log.  tokenExpiryTimer holds the time its pending    *)
(* timer is due at.                                                        *)
(***************************************************************************)
\* const refreshTime = 55 * 60 * 1000, in five-minute steps
refreshTime == 11

\* AuthenticationManager.logActivity
authLogActivity(s, level) ==
    [s EXCEPT !.w.monitoringManager = addLog(@, level, "AuthenticationManager")]

\* scheduleTokenRefresh
scheduleTokenRefresh(s, now) ==
    authLogActivity([s EXCEPT !.authManager.tokenExpiryTimer = Stored(now + refreshTime)],
                    "info")

\* checkAuthenticationStatus: window.apiClient.isAuthenticated() is
\* !!this.accessToken of this tab's client
checkAuthenticationStatus(s, now) ==
    IF s.w.apiClient.accessToken # Absent
    THEN scheduleTokenRefresh([s EXCEPT !.authManager.isAuthenticated = TRUE], now)
    ELSE [s EXCEPT !.authManager.isAuthenticated = FALSE]

\* AuthenticationManager.authenticate, with updateConfig of the client
authManagerAuthenticate(s, config, outcome, now) ==
    IF config = Null \/ config[1].pluginUsername = <<>> \/ config[1].pluginPassword = <<>>
    THEN authLogActivity(s, "error")
    ELSE LET configured == [s.w EXCEPT !.apiClient.baseUrl = Stored(config[1].baseUrl)]
             done == authenticate(configured, config[1].pluginUsername,
                                  config[1].pluginPassword, outcome, now)
         IN  IF done.result.success
             THEN authLogActivity(
                      scheduleTokenRefresh([s EXCEPT !.w = done.w,
                                                     !.authManager.isAuthenticated = TRUE],
                                           now),
                      "success")
             ELSE authLogActivity([s EXCEPT !.w = done.w], "error")

\* logout without the clearTimeout
logoutKeepingTimer(s) ==
    authLogActivity([s EXCEPT !.w = clearAuthData(s.w),
                              !.authManager.isAuthenticated = FALSE],
                    "info")

\* logout
logout(s) ==
    authLogActivity([s EXCEPT !.w = clearAuthData(s.w),
                              !.authManager.isAuthenticated = FALSE,
                              !.authManager.tokenExpiryTimer = Absent],
                    "info")

\* AuthenticationManager.refreshToken
refreshToken(s, outcome, now) ==
    LET done == refreshAccessToken(s.w, outcome, now)
    IN  IF done.result.success
        THEN authLogActivity(scheduleTokenRefresh([s EXCEPT !.w = done.w], now), "success")
        ELSE authLogActivity(logout([s EXCEPT !.w = done.w]), "error")

\* the tab: the manager with the client, localStorage and log it works on
Tab == [ authManager |-> authManager,
         w |-> World(apiClient, localStorage, monitoringManager) ]

TabBecomes(s) ==
    /\ authManager' = s.authManager
    /\ apiClient' = s.w.apiClient
    /\ localStorage' = s.w.localStorage
    /\ monitoringManager' = s.w.monitoringManager

\* what an earlier session left under talabat_pos_auth: nothing, or tokens
\* that expire ten minutes or an hour after this page is loaded
StoredAuthData ==
    {Absent} \cup { Stored([accessToken |-> 0, refreshToken |-> 0, expiresAt |-> expiresAt]) :
                      expiresAt \in {2, expiresIn} }

\* the page is loaded at time 0: new TalabatAPIClient(), which takes the base
\* URL of the current configuration and loads the stored tokens, then new
\* AuthenticationManager(), which checks the authentication status
InitAuth ==
    /\ budget = MaxAuthOps
    /\ clock = 0
    /\ apiCall = NoApiCall
    /\ login = NoLogin
    /\ server = NoServer
    /\ InitTestIdle
    /\ InitRepIdle
    /\ InitPureIdle
    /\ apiCallTracker = {}
    /\ completed = NoneCompleted
    /\ \E auth \in StoredAuthData, config \in {Absent} \cup {Stored(record) : record \in SavedConfigs} :
          LET ls == [EmptyStorage EXCEPT !.talabat_pos_auth = auth, !.config = config]
              cm == loadConfiguration(ls)
              client == [NewAPIClient EXCEPT !.baseUrl = Stored(cm.currentConfig[1].baseUrl)]
              loaded == loadAuthData(World(client, ls, Construct(ls)), 0)
              s == checkAuthenticationStatus(
                       [authManager |-> NewAuthenticationManager, w |-> loaded], 0)
          IN  /\ InitCfgOver(ls)
              /\ activeIntervals = startMonitoringHandles(loadStoredData(NewMonitoringManager, ls), {})
              /\ authManager = s.authManager
              /\ apiClient = s.w.apiClient
              /\ localStorage = s.w.localStorage
              /\ monitoringManager = s.w.monitoringManager

\* five minutes pass; a timer that is due fires before they do
Tick ==
    /\ clock < MaxClock
    /\ authManager.tokenExpiryTimer # Absent => authManager.tokenExpiryTimer[1] > clock
    /\ clock' = clock + 1
    /\ UNCHANGED <<authManager, apiClient, localStorage, monitoringManager, budget>>

\* the timer of scheduleTokenRefresh fires: this.refreshToken()
TokenExpiryTimerFires ==
    /\ authManager.tokenExpiryTimer # Absent
    /\ authManager.tokenExpiryTimer[1] <= clock
    /\ \E outcome \in {"token", "http_error"} :
          TabBecomes(refreshToken([Tab EXCEPT !.authManager.tokenExpiryTimer = Absent],
                                  outcome, clock))
    /\ UNCHANGED <<clock, budget>>

\* the window gets the focus
Focus ==
    /\ Spend
    /\ TabBecomes(checkAuthenticationStatus(Tab, clock))
    /\ UNCHANGED clock

\* another tab logs in or clears its authentication data, and the storage
\* event for talabat_pos_auth reaches this tab
StorageEvent ==
    /\ Spend
    /\ \E auth \in {Absent, Stored([ accessToken |-> clock, refreshToken |-> clock,
                                     expiresAt |-> clock + expiresIn ])} :
          /\ auth # localStorage.talabat_pos_auth
          /\ TabBecomes(checkAuthenticationStatus(
                            [Tab EXCEPT !.w.localStorage.talabat_pos_auth = auth], clock))
    /\ UNCHANGED clock

\* testAuthentication(): window.authManager.authenticate()
Authenticate ==
    /\ Spend
    /\ \E outcome \in {"token", "http_error"} :
          TabBecomes(authManagerAuthenticate(Tab, configManager.currentConfig, outcome, clock))
    /\ UNCHANGED clock

NextAuth ==
    /\ UNCHANGED <<monOnly, repOnly, cfgOnly, pureOnly, login, server, apiCall, testOnly>>
    /\ \/ Tick
       \/ TokenExpiryTimerFires
       \/ Focus
       \/ StorageEvent
       \/ Authenticate

SpecAuth == InitAuth /\ [][NextAuth]_vars

(***************************************************************************)
(* IntegrationTester (src/unnamed/part_003) and the buttons of the testing *)
(* tab.  A test works on the tester and, through window.apiClient, on the  *)
(* client, the localStorage and the monitoring log; what it sends and what *)
(* it shows is collected as it goes.  The loading overlay is one element   *)
(* of the page, page.loading, whoever shows or hides it.                   *)
(***************************************************************************)
\* tests, logins and token refreshes asked for in the testing tab
MaxTestOps == 2

\* config.vendorCode and the like: a field the record lacks reads as undefined
Field(config, name) == IF name \in DOMAIN config THEN config[name] ELSE <<>>

\* what a test starts from
TestOver(tester, w) ==
    [ integrationTester |-> tester, w |-> w, requests |-> <<>>, results |-> <<>> ]

\* IntegrationTester.logActivity
testerLogActivity(t, level) ==
    [t EXCEPT !.w.monitoringManager = addLog(@, level, "IntegrationTester")]

\* saveTestResults
saveTestResults(t) ==
    [t EXCEPT !.w.localStorage.talabat_pos_test_results =
                  Stored(t.integrationTester.testResults)]

\* the catch of a test: the one line shown, and the error logged
testFailed(t, message) ==
    testerLogActivity([t EXCEPT !.results = <<Failed(message)>>], "error")

\* the prerequisites of testOrderManagement with the configuration alone
orderPrerequisitesOfConfig(config, isAuthenticated) ==
    IF config = Null \/ Field(config[1], "vendorCode") = <<>>
                     \/ Field(config[1], "remoteId") = <<>>
    THEN "Please configure Vendor Code and Remote ID first"
    ELSE "met"

\* the two checks testOrderManagement starts with: "met", or the message of
\* the Error thrown
orderPrerequisites(config, isAuthenticated) ==
    IF config = Null \/ Field(config[1], "vendorCode") = <<>>
                     \/ Field(config[1], "remoteId") = <<>>
    THEN "Please configure Vendor Code and Remote ID first"
    ELSE IF ~isAuthenticated THEN "Authentication required. Please authenticate first."
    ELSE "met"

\* what a sub-test pushes once the client has answered: two lines for a
\* success, the error for a failure
subTestResult(t, operation, done) ==
    [t EXCEPT !.w = done.w,
              !.requests = Append(@, operation),
              !.results = @ \o (IF done.result.success
                                THEN <<Passed(operation), Passed("validated")>>
                                ELSE <<Failed(done.result.error)>>)]

\* a sub-test of testOrderManagement that calls the client, if its checkbox
\* is checked: the request, and the lines pushed for its result
apiSubTest(t, checked, operation, outcome) ==
    IF ~checked THEN t
    ELSE subTestResult(t, operation, testRequest(t.w, outcome))

\* the checkboxes of the order tests that call the client, and one of those
\* that only wait and push their two lines (test-order-status and
\* test-auto-accept do as test-order-cancel does)
OrderCheckboxes ==
    {"test-order-receive", "test-order-accept", "test-order-reject", "test-order-cancel"}

\* testOrderManagement
testOrderManagement(t, config, isAuthenticated, checked, outcome) ==
    LET received == apiSubTest(t, "test-order-receive" \in checked,
                               "testOrderReception", outcome.receive)
        accepted == apiSubTest(received, "test-order-accept" \in checked,
                               "testOrderAcceptance", outcome.accept)
        rejected == apiSubTest(accepted, "test-order-reject" \in checked,
                               "testOrderRejection", outcome.reject)
        cancelled == IF "test-order-cancel" \in checked
                     THEN [rejected EXCEPT !.results =
                              @ \o <<Passed("cancellation"), Passed("verified")>>]
                     ELSE rejected
        flow == [cancelled EXCEPT !.results = @ \o <<Passed("flow"), Passed("flow")>>]
    IN  IF orderPrerequisites(config, isAuthenticated) # "met"
        THEN testFailed(t, orderPrerequisites(config, isAuthenticated))
        ELSE testerLogActivity(
                 saveTestResults([flow EXCEPT !.integrationTester.testResults.order = TRUE]),
                 "success")

\* the catalog JSON of the form: empty, text JSON.parse throws on, a catalog
CatalogJsons == {"", "{", "{}"}

\* the checks testCatalogManagement starts with: "met", or the message of the
\* Error thrown
catalogPrerequisites(catalogJson, isAuthenticated) ==
    IF catalogJson = "" THEN "Please provide catalog JSON for testing"
    ELSE IF ~isAuthenticated THEN "Authentication required. Please authenticate first."
    ELSE IF catalogJson = "{" THEN "Invalid JSON format"
    ELSE "met"

\* testCatalogManagement after its await simulateApiCall(2000): the import,
\* and the lines for its result after the one for the valid JSON
testCatalogImported(t, callbackUrl, outcome) ==
    LET done == testRequest(t.w, outcome)
        sent == [t EXCEPT !.w = done.w,
                          !.requests = Append(@, "testCatalogImport"),
                          !.results = <<Passed("JSON")>>]
    IN  testerLogActivity(
            IF done.result.success
            THEN saveTestResults(
                     [sent EXCEPT !.results =
                                      @ \o (IF callbackUrl # <<>>
                                            THEN <<Passed("callback"), Passed("webhook")>>
                                            ELSE <<>>)
                                        \o <<Passed("import"), Passed("async")>>,
                                  !.integrationTester.testResults.catalog = TRUE])
            ELSE [sent EXCEPT !.results = Append(@, Failed(done.result.error))],
            "success")

\* resetAllTests
resetAllTests(t) ==
    testerLogActivity(
        saveTestResults([t EXCEPT !.integrationTester = NewIntegrationTester]), "info")

\* runFullTestSuite() of main.js: what it comes to.  With the prerequisites
\* met it calls window.integrationTester.runFullTestSuite, which the class
\* does not define
runFullTestSuite(config, isAuthenticated) ==
    IF config = Null \/ Field(config[1], "integrationName") = <<>>
    THEN "Please configure the integration first"
    ELSE IF ~isAuthenticated THEN "Please authenticate first"
    ELSE "TypeError: window.integrationTester.runFullTestSuite is not a function"

\* AuthenticationManager.showLoading and hideLoading, which the tester's and
\* the reports manager's own showLoading and hideLoading call
showLoading(pg) == [pg EXCEPT !.loading = TRUE]

\* hideLoading leaving the overlay as it is
hideLoadingLeft(pg) == pg

hideLoading(pg) == [pg EXCEPT !.loading = FALSE]

\* what a call of a test is remembered by: what it found when it was called,
\* and what it did
TestRun(op, catalogJson, message, t) ==
    [ op |-> op, config |-> configManager.currentConfig,
      isAuthenticated |-> authManager.isAuthenticated, catalogJson |-> catalogJson,
      message |-> message, requests |-> t.requests, results |-> t.results,
      before |-> integrationTester.testResults,
      stored |-> localStorage.talabat_pos_test_results ]

\* the tester as the page holds it
Tester == TestOver(integrationTester, World(apiClient, localStorage, monitoringManager))

TesterBecomes(t) ==
    /\ integrationTester' = t.integrationTester
    /\ apiClient' = t.w.apiClient
    /\ localStorage' = t.w.localStorage
    /\ monitoringManager' = t.w.monitoringManager

\* a configuration an earlier session saved, with the vendor code and the
\* remote id filled in or left empty
TesterConfigs ==
    { [ integrationName |-> Ab, integrationCode |-> <<"a", "-", "b">>, baseUrl |-> HttpsUrl,
        pluginUsername |-> <<"u">>, pluginPassword |-> <<"p">>,
        vendorCode |-> vendorCode, remoteId |-> remoteId ] :
        vendorCode \in {<<>>, <<"v">>}, remoteId \in {<<>>, <<"1">>} }

\* the page is loaded over what an earlier session left: a configuration or
\* none, tokens that are good for an hour or none
InitTest ==
    /\ budget = MaxTestOps
    /\ clock = 0
    /\ apiCall = NoApiCall
    /\ login = NoLogin
    /\ server = NoServer
    /\ InitTestIdle
    /\ InitRepIdle
    /\ InitPureIdle
    /\ apiCallTracker = {}
    /\ completed = NoneCompleted
    /\ \E auth \in {Absent, Stored([accessToken |-> 0, refreshToken |-> 0,
                                    expiresAt |-> expiresIn])},
          config \in {Absent} \cup {Stored(record) : record \in TesterConfigs} :
          LET ls == [EmptyStorage EXCEPT !.talabat_pos_auth = auth, !.config = config]
              cm == loadConfiguration(ls)
              client == [NewAPIClient EXCEPT !.baseUrl = Stored(cm.currentConfig[1].baseUrl)]
              loaded == loadAuthData(World(client, ls, Construct(ls)), 0)
              s == checkAuthenticationStatus(
                       [authManager |-> NewAuthenticationManager, w |-> loaded], 0)
          IN  /\ InitCfgOver(ls)
              /\ activeIntervals = startMonitoringHandles(loadStoredData(NewMonitoringManager, ls), {})
              /\ authManager = s.authManager
              /\ apiClient = s.w.apiClient
              /\ localStorage = s.w.localStorage
              /\ monitoringManager = s.w.monitoringManager

\* the button of the order tests
TestOrderManagement ==
    /\ Spend
    /\ \E checked \in SUBSET OrderCheckboxes,
          outcome \in [receive : {"json", "http_error"}, accept : {"json", "http_error"},
                       reject : {"json", "http_error"}] :
          LET t == testOrderManagement(Tester, configManager.currentConfig,
                                       authManager.isAuthenticated, checked, outcome)
          IN  /\ TesterBecomes(t)
              /\ testRun' = TestRun("testOrderManagement", "",
                                     orderPrerequisites(configManager.currentConfig,
                                                        authManager.isAuthenticated), t)
    /\ UNCHANGED <<authManager, page, pendingCalls, apiCall>>

\* one of pendingCalls resumes: the others stay
Resumed(i) ==
    pendingCalls' = [ k \in 1..(Len(pendingCalls) - 1) |->
                        IF k < i THEN pendingCalls[k] ELSE pendingCalls[k + 1] ]

\* testCatalogManagement up to its await
TestCatalogManagementBegin ==
    /\ Spend
    /\ \E catalogJson \in CatalogJsons, callbackUrl \in {<<>>, HttpsUrl} :
          LET message == catalogPrerequisites(catalogJson, authManager.isAuthenticated)
              t == IF message = "met" THEN Tester ELSE testFailed(Tester, message)
          IN  /\ TesterBecomes(t)
              /\ testRun' = TestRun("testCatalogManagement", catalogJson, message, t)
              /\ page' = IF message = "met" THEN showLoading(page) ELSE hideLoading(page)
              /\ pendingCalls' =
                    IF message = "met"
                    THEN Append(pendingCalls, [ op |-> "testCatalogManagement",
                                                catalogJson |-> catalogJson,
                                                callbackUrl |-> callbackUrl,
                                                config |-> Null ])
                    ELSE pendingCalls
    /\ UNCHANGED <<authManager, apiCall>>

\* testCatalogManagement after its await
TestCatalogManagementFinish ==
    /\ \E i \in DOMAIN pendingCalls, outcome \in {"json", "http_error"} :
          /\ pendingCalls[i].op = "testCatalogManagement"
          /\ LET t == testCatalogImported(Tester, pendingCalls[i].callbackUrl, outcome)
             IN  /\ TesterBecomes(t)
                 \* the session was found authenticated when the test was called
                 /\ testRun' = [ TestRun("testCatalogManagement",
                                         pendingCalls[i].catalogJson, "met", t)
                                 EXCEPT !.isAuthenticated = TRUE ]
          /\ Resumed(i)
    /\ page' = hideLoading(page)
    /\ UNCHANGED <<authManager, apiCall, budget>>

\* the button of the full test suite: runFullTestSuite() of main.js
RunFullTestSuite ==
    /\ Spend
    /\ testRun' = TestRun("runFullTestSuite", "",
                          runFullTestSuite(configManager.currentConfig,
                                           authManager.isAuthenticated), Tester)
    /\ UNCHANGED <<integrationTester, apiClient, localStorage, monitoringManager,
                   authManager, page, pendingCalls, apiCall>>

\* the reset button
ResetAllTests ==
    /\ Spend
    /\ TesterBecomes(resetAllTests(Tester))
    /\ testRun' = TestRun("resetAllTests", "", "met", resetAllTests(Tester))
    /\ UNCHANGED <<authManager, page, pendingCalls, apiCall>>

\* what a login or a token refresh of the testing tab is remembered by
AuthCall(op, outcome, result) ==
    [ NoApiCall EXCEPT !.op = op, !.outcome = outcome, !.before = apiClient,
                       !.state = "settled", !.result = Stored(result) ]

\* testAuthentication(): AuthenticationManager.authenticate up to its await.
\* Without a user name or a password it fails before the overlay is shown,
\* and its catch hides the overlay
AuthenticateBegin ==
    /\ Spend
    /\ LET config == configManager.currentConfig
           lacking == config = Null \/ config[1].pluginUsername = <<>>
                                    \/ config[1].pluginPassword = <<>>
       IN  IF lacking
           THEN /\ TabBecomes(authManagerAuthenticate(Tab, config, "token", clock))
                /\ page' = hideLoading(page)
                /\ apiCall' = AuthCall("authenticate", "none",
                                       Resolved(FALSE, "Username and password are required"))
                /\ UNCHANGED pendingCalls
           ELSE /\ page' = showLoading(page)
                /\ apiClient' = [apiClient EXCEPT !.baseUrl = Stored(config[1].baseUrl)]
                /\ pendingCalls' = Append(pendingCalls,
                                          [ op |-> "authenticate", catalogJson |-> "",
                                            callbackUrl |-> <<>>, config |-> config ])
                /\ UNCHANGED <<authManager, localStorage, monitoringManager, apiCall>>
    /\ UNCHANGED <<integrationTester, testRun>>

\* AuthenticationManager.authenticate after its await
AuthenticateFinish ==
    /\ \E i \in DOMAIN pendingCalls, outcome \in {"token", "http_error"} :
          /\ pendingCalls[i].op = "authenticate"
          /\ TabBecomes(authManagerAuthenticate(Tab, pendingCalls[i].config, outcome, clock))
          /\ apiCall' = AuthCall("authenticate", outcome,
                                 authenticate(Tab.w, <<"u">>, <<"p">>, outcome, clock).result)
          /\ Resumed(i)
    /\ page' = hideLoading(page)
    /\ UNCHANGED <<integrationTester, testRun, budget>>

\* testTokenRefresh(): AuthenticationManager.refreshToken up to its await
RefreshTokenBegin ==
    /\ Spend
    /\ page' = showLoading(page)
    /\ pendingCalls' = Append(pendingCalls, [ op |-> "refreshToken", catalogJson |-> "",
                                              callbackUrl |-> <<>>, config |-> Null ])
    /\ UNCHANGED <<integrationTester, testRun, apiClient, localStorage, monitoringManager,
                   authManager, apiCall>>

\* AuthenticationManager.refreshToken after its await
RefreshTokenFinish ==
    /\ \E i \in DOMAIN pendingCalls, outcome \in {"token", "json", "network_error"} :
          /\ pendingCalls[i].op = "refreshToken"
          /\ TabBecomes(refreshToken(Tab, outcome, clock))
          /\ apiCall' = AuthCall("refreshToken", outcome,
                                 refreshAccessToken(Tab.w, outcome, clock).result)
          /\ Resumed(i)
    /\ page' = hideLoading(page)
    /\ UNCHANGED <<integrationTester, testRun, budget>>

NextTest ==
    /\ UNCHANGED <<monOnly, cfgOnly, pureOnly, login, server, clock,
                   reportsManager, pendingReports, lastReport, reportCalls>>
    /\ \/ TestOrderManagement
       \/ TestCatalogManagementBegin
       \/ TestCatalogManagementFinish
       \/ RunFullTestSuite
       \/ ResetAllTests
       \/ AuthenticateBegin
       \/ AuthenticateFinish
       \/ RefreshTokenBegin
       \/ RefreshTokenFinish

SpecTest == InitTest /\ [][NextTest]_vars

(***************************************************************************)
(* The operations that show the loading overlay, together: generateReport, *)
(* testCatalogManagement, authenticate and refreshToken.  A timer that was *)
(* set runs out and a request that was sent is answered or fails, so an    *)
(* operation waiting at its await resumes in the end.                      *)
(***************************************************************************)
ReportsIdle ==
    UNCHANGED <<monOnly, cfgOnly, pureOnly, login, server, clock,
                reportsManager, pendingReports, lastReport, reportCalls>>

NextLoading ==
    \/ GenerateReportBegin
    \/ GenerateReportFinish
    \/ /\ ReportsIdle
       /\ \/ TestCatalogManagementBegin
          \/ TestCatalogManagementFinish
          \/ AuthenticateBegin
          \/ AuthenticateFinish
          \/ RefreshTokenBegin
          \/ RefreshTokenFinish

\* the report at the head of the queue leaves it: of the steps of NextLoading
\* exactly those of GenerateReportFinish, which is enabled whenever a report
\* is waiting
ReportTimerFires ==
    /\ pendingReports # <<>>
    /\ pendingReports' = Tail(pendingReports)

\* the page is loaded by a partner whose configuration is complete, with the
\* tokens of an earlier session or without
InitLoading ==
    /\ InitTest
    /\ configManager.currentConfig # Null
    /\ Field(configManager.currentConfig[1], "vendorCode") # <<>>
    /\ Field(configManager.currentConfig[1], "remoteId") # <<>>

SpecLoading ==
    /\ InitLoading
    /\ [][NextLoading]_vars
    /\ WF_pendingReports(ReportTimerFires)
    /\ WF_vars(ReportsIdle /\ TestCatalogManagementFinish)
    /\ WF_vars(ReportsIdle /\ AuthenticateFinish)
    /\ WF_vars(ReportsIdle /\ RefreshTokenFinish)

(***************************************************************************)
(* Claims about the MonitoringManager, checked under SpecMon.              *)
(***************************************************************************)

\* C1: in every reachable state, after the start-up load and after any
\* sequence of operations, the log list holds at most maxLogEntries entries.
C1_LogsBounded == Len(monitoringManager.logs) <= maxLogEntries

\* C1 witness: the list is full and entries have been pushed out of it.
C1_Witness ==
    /\ Len(monitoringManager.logs) = maxLogEntries
    /\ monitoringManager.logs[1].id > 2

\* C2: in every reachable state, after the start-up load and after any
\* sequence of tracked calls and error logs, each of the three metric series
\* holds at most maxMetricPoints points.
C2_SeriesBounded ==
    /\ Len(monitoringManager.metrics.responseTime) <= maxMetricPoints
    /\ Len(monitoringManager.metrics.successRate) <= maxMetricPoints
    /\ Len(monitoringManager.metrics.errorRate) <= maxMetricPoints

\* C2 witness: a full success-rate series loaded at start-up has taken two
\* more points, computed after an error, and is still at the cap.
C2_Witness ==
    LET sr == monitoringManager.metrics.successRate IN
    /\ Len(sr) = maxMetricPoints
    /\ sr[maxMetricPoints].value = Rate(0, 1)
    /\ sr[maxMetricPoints - 1].value = Rate(0, 1)
    /\ Len(monitoringManager.metrics.errorRate) = maxMetricPoints

\* C3: once calls have completed, the most recent success-rate point is
\* 100 x (calls completed with success) / (calls completed), over the lifetime
\* of the manager.
C3_SuccessRateIsCompletedRatio ==
    LET sr == monitoringManager.metrics.successRate
        n == completed.ok + completed.failed
    IN  n > 0 => /\ sr # <<>>
                 /\ sr[Len(sr)].value.num * n = completed.ok * sr[Len(sr)].value.den


(***************************************************************************)
(* Claims about validateReportParameters, checked under SpecValidate.      *)
(***************************************************************************)
\* C4: validateReportParameters rejects exactly when a date is missing, or
\* from is later than to, or the span exceeds 365 days, or the type is not one
\* of completed/cancelled/performance/errors/all, or the format is not one of
\* json/csv/pdf; everything else is accepted.
C4_RejectsExactlyListed ==
    validation.result # "idle" =>
        LET p == validation.params
            listed ==
                \/ p.fromDate = MissingDate
                \/ p.toDate = MissingDate
                \/ LaterThan(p.fromDate, p.toDate)
                \/ SpanExceeds(p.fromDate, p.toDate, maxRangeDays)
                \/ p.type \notin {"completed", "cancelled", "performance", "errors", "all"}
                \/ p.format \notin {"json", "csv", "pdf"}
        IN  (validation.result # "valid") <=> listed

(***************************************************************************)
(* Claims about the reports page, checked under SpecRep.                   *)
(***************************************************************************)
\* the error entries the ReportsManager put into the monitoring log
ReportErrorsLogged(m) ==
    Cardinality({ i \in 1..Len(m.logs) :
                    m.logs[i].module = "ReportsManager" /\ m.logs[i].level = "error" })

\* C5: a generateReport or scheduleReport call whose parameters fail the
\* validation shows exactly one error result and logs exactly one error, and
\* leaves no partial output: reportHistory, scheduledReports, the reports
\* waiting for their data, localStorage and the downloads stay as they were.
C5_RejectedCallLeavesNoOutput ==
    [][ reportCalls'.rejected = reportCalls.rejected + 1 =>
          /\ page'.shown = page.shown + 1
          /\ Len(page'.reportResults) = 1
          /\ page'.reportResults[1].mark = "failed"
          /\ ReportErrorsLogged(monitoringManager') = ReportErrorsLogged(monitoringManager) + 1
          /\ Len(monitoringManager'.logs) = Len(monitoringManager.logs) + 1
          /\ reportsManager' = reportsManager
          /\ pendingReports' = pendingReports
          /\ localStorage' = localStorage
          /\ page'.downloads = page.downloads
          /\ lastReport' = lastReport ]_vars

\* a call was rejected after a report had been generated and delivered
C5_Witness ==
    /\ reportCalls.rejected >= 1
    /\ Len(reportsManager.reportHistory) >= 1
    /\ Len(page.downloads) >= 1
    /\ Len(page.reportResults) = 1
    /\ page.reportResults[1].mark = "failed"

\* C6: a generated report of type 'completed' or 'all' has summary.total_orders
\* equal to the length of its record list, and the history record appended
\* for it has that same number as its recordCount.
C6_TotalOrdersIsRecordCount ==
    lastReport # Absent =>
        LET report == lastReport[1]
            history == reportsManager.reportHistory
        IN  report.params.type \in {"completed", "all"} =>
                /\ report.data.summary.total_orders = Len(report.data.records)
                /\ history # <<>>
                /\ history[Len(history)].recordCount = Len(report.data.records)

\* an 'all' report over a range of more than a day, holding orders of both kinds
C6_Witness ==
    /\ lastReport # Absent
    /\ lastReport[1].params.type = "all"
    /\ lastReport[1].data.summary.completed_orders > 0
    /\ lastReport[1].data.summary.cancelled_orders > 0
    /\ lastReport[1].data.summary.total_orders > lastReport[1].data.summary.completed_orders

(***************************************************************************)
(* Claims about formatAsCSV, checked under SpecCsv.  The text it returns is *)
(* read back the way a CSV reader does: separators inside quotes do not    *)
(* separate.                                                               *)
(***************************************************************************)
\* the places of text where a separator stands outside quotes: one with an
\* even number of quotes before it
SeparatorsOf(text, separator) ==
    { i \in 1..Len(text) :
        /\ text[i] = separator
        /\ Cardinality({ j \in 1..(i - 1) : text[j] = Quote }) % 2 = 0 }

\* the parts of text between such separators
Split(text, separator) ==
    LET at == SeparatorsOf(text, separator)
        place(k) == IF k = 0 THEN 0
                    ELSE IF k = Cardinality(at) + 1 THEN Len(text) + 1
                    ELSE CHOOSE i \in at : Cardinality({ j \in at : j < i }) = k - 1
    IN  [ k \in 1..(Cardinality(at) + 1) |->
            SubSeq(text, place(k - 1) + 1, place(k) - 1) ]

CsvLines(text) == Split(text, Newline)
CsvFields(line) == Split(line, Comma)

\* every quote of the text is one of a pair
RECURSIVE QuotesDoubled(_)
QuotesDoubled(text) ==
    IF text = <<>> THEN TRUE
    ELSE IF Head(text) # Quote THEN QuotesDoubled(Tail(text))
    ELSE Len(text) >= 2 /\ text[2] = Quote /\ QuotesDoubled(Tail(Tail(text)))

\* the text with every pair of quotes made one
RECURSIVE Unescaped(_)
Unescaped(text) ==
    IF text = <<>> THEN <<>>
    ELSE IF Head(text) = Quote /\ Len(text) >= 2
         THEN <<Quote>> \o Unescaped(Tail(Tail(text)))
         ELSE <<Head(text)>> \o Unescaped(Tail(text))

Inside(field) == SubSeq(field, 2, Len(field) - 1)

IsQuoted(field) ==
    /\ Len(field) >= 2
    /\ field[1] = Quote
    /\ field[Len(field)] = Quote
    /\ QuotesDoubled(Inside(field))

Formatted == csv.state = "formatted" /\ Len(csv.records) > 0

\* the keys that hold a value other than an object in at least one record
ScalarKeys ==
    { key \in RecordKeys :
        \E i \in 1..Len(csv.records) :
            /\ csv.records[i][key] # NoKey
            /\ csv.records[i][key].kind # "object" }

\* C7: for a non-empty record list the header's columns are exactly the
\* distinct keys holding a scalar (non-object, or null) value in at least one
\* record, in sorted order, and every data row has as many comma-separated
\* fields as the header has columns.
C7_HeaderIsSortedScalarKeys ==
    Formatted =>
        LET lines == CsvLines(csv.text)
            header == CsvFields(lines[1])
        IN  /\ Len(lines) = Len(csv.records) + 1
            /\ { header[c] : c \in 1..Len(header) } = ScalarKeys
            /\ Len(header) = Cardinality(ScalarKeys)
            /\ \A c \in 1..(Len(header) - 1) : SortsBefore(header[c], header[c + 1])
            /\ \A r \in 2..Len(lines) : Len(CsvFields(lines[r])) = Len(header)

\* two records, all three keys in the header, one record holding an object where
\* the other holds null, and a text with a comma in a field
C7_Witness ==
    /\ Formatted
    /\ Len(csv.records) = 2
    /\ Cardinality(ScalarKeys) = 3
    /\ csv.records[1][KeyDetails] = ObjectValue
    /\ csv.records[2][KeyDetails] = NullValue
    /\ csv.records[1][KeyModule] = StringValue(<<"a", Comma>>)

\* C8 as stated: every field of every data row is wrapped in double quotes
\* with embedded quotes doubled, also where the record lacks the column or
\* holds null in it.
C8_EveryFieldQuoted ==
    Formatted =>
        LET lines == CsvLines(csv.text)
        IN  \A r \in 2..Len(lines) :
                LET fields == CsvFields(lines[r])
                IN  \A c \in 1..Len(fields) : IsQuoted(fields[c])

\* C8, amended: every value that is neither null nor undefined is written
\* wrapped in double quotes with its embedded quotes doubled; where the record
\* lacks the column, or holds null or undefined in it, the field is empty and
\* has no quotes.
C8_DefinedValuesQuoted ==
    Formatted =>
        LET lines == CsvLines(csv.text)
            header == CsvFields(lines[1])
        IN  \A i \in 1..Len(csv.records) :
                LET fields == CsvFields(lines[i + 1])
                IN  \A c \in 1..Len(header) :
                        LET value == Get(csv.records[i], header[c])
                        IN  IF value.kind \in {"null", "undefined"}
                            THEN fields[c] = <<>>
                            ELSE /\ IsQuoted(fields[c])
                                 /\ Unescaped(Inside(fields[c])) = String(value)

\* a record without the module key next to one whose module holds quotes, and
\* a null and an object in the details
C8_Witness ==
    /\ Formatted
    /\ Len(csv.records) = 2
    /\ csv.records[1][KeyModule] = NoKey
    /\ csv.records[2][KeyModule] = StringValue(<<Quote, "a", Quote>>)
    /\ csv.records[1][KeyDetails] = NullValue
    /\ csv.records[2][KeyDetails] = ObjectValue

(***************************************************************************)
(* Claims about validateConfiguration, checked under SpecCfgValidate.      *)
(***************************************************************************)
\* the text holds only letters and whitespace, ends in a letter and is at
\* least two characters long
IsNameLike(text) ==
    /\ Len(text) >= 2
    /\ \A i \in 1..Len(text) : IsLetter(text[i]) \/ IsWhitespace(text[i])
    /\ IsLetter(text[Len(text)])

\* C9: validateConfiguration reports a record valid exactly when the
\* integration name matches the letters-and-spaces pattern, the integration
\* code is lower-case letters and hyphens only, the base URL parses as a URL
\* and starts with https://, and plugin username and plugin password are not
\* empty; a base URL that is not HTTPS is always rejected, and the valid flag
\* is true exactly when the error list is empty.
C9_ValidIffRulesHold ==
    configValidation.state = "validated" =>
        LET record == configValidation.config
            rulesHold ==
                /\ IsNameLike(record.integrationName)
                /\ MatchesCodePattern(record.integrationCode)
                /\ isValidUrl(record.baseUrl)
                /\ StartsWith(record.baseUrl, HttpsPrefix)
                /\ record.pluginUsername # <<>>
                /\ record.pluginPassword # <<>>
        IN  /\ configValidation.isValid <=> rulesHold
            /\ ~StartsWith(record.baseUrl, HttpsPrefix) => ~configValidation.isValid
            /\ configValidation.isValid <=> (configValidation.errors = <<>>)

\* a record whose only flaw is its http:// base URL, rejected for that alone
C9_Witness ==
    /\ configValidation.state = "validated"
    /\ configValidation.config.integrationName = <<"A", " ", "b">>
    /\ configValidation.config.integrationCode = <<"a", "-", "b">>
    /\ configValidation.config.baseUrl = HttpUrl
    /\ configValidation.config.pluginUsername # <<>>
    /\ configValidation.config.pluginPassword # <<>>
    /\ ~configValidation.isValid
    /\ configValidation.errors = <<"Base URL must use HTTPS">>

(***************************************************************************)
(* Claims about the configuration page, checked under SpecCfg.             *)
(***************************************************************************)
\* the configuration given does not satisfy the validation rules: there is
\* none, or one of its fields breaks its rule
FailsValidation(config) == config = Null \/ ValidationErrors(config[1]) # <<>>

\* C10: a save of the form or an import of a file whose configuration fails
\* the validation is blocked: the current configuration and the configuration
\* in localStorage stay as they were and the unsaved marker is not cleared.
C10_InvalidSaveOrImportBlocked ==
    [][ (configCalls'.n = configCalls.n + 1 /\ FailsValidation(configCalls'.input)) =>
          /\ configManager'.currentConfig = configManager.currentConfig
          /\ localStorage'.config = localStorage.config
          /\ configPage.unsaved => configPage'.unsaved ]_vars

(***************************************************************************)
(* Further claims about the MonitoringManager, checked under SpecMon.      *)
(***************************************************************************)
\* the entries a step has pushed onto the log list: the ids from the old
\* nextId up to the new one, which the new list ends with
PushedEntries ==
    LET k == monitoringManager'.nextId - monitoringManager.nextId
        logs == monitoringManager'.logs
    IN  IF k > 0 /\ k <= Len(logs) THEN SubSeq(logs, Len(logs) - k + 1, Len(logs))
        ELSE <<>>

C18_AverageOverCompletedCalls ==
    [][ completed' # completed =>
          LET average == monitoringManager'.performanceData.averageResponseTime
              n == completed'.ok + completed'.failed
          IN  average.num * n = completed'.elapsed * average.den ]_vars

(***************************************************************************)
(* Further claims about the configuration page, checked under SpecCfg.     *)
(***************************************************************************)
\* C19: validateConfiguration depends on nothing but the record it is given
\* and changes nothing: whatever a step of the page does to the manager, the
\* record in the form gets the same valid flag and the same error list when
\* validated before the step and after it, and a step that only validates the form leaves the
\* current configuration, localStorage and the monitoring log as they were.
C19_ValidateConfigurationPure ==
    [][ /\ configManager' # configManager =>
              validateConfiguration(configManager', Config(configPage.form)) =
                  validateConfiguration(configManager, Config(configPage.form))
        /\ (/\ configCalls' = configCalls
            /\ configPage'.form = configPage.form
            /\ ValidateForm \/ ValidateConfigurationSilently) =>
              /\ configManager'.currentConfig = configManager.currentConfig
              /\ localStorage' = localStorage
              /\ monitoringManager'.logs = monitoringManager.logs ]_vars

\* C19 witness: the form holds a record that fails the validation while the
\* current configuration is one that passes it, and the form's errors are shown
C19_Witness ==
    /\ configManager.currentConfig # Null
    /\ ValidationErrors(configManager.currentConfig[1]) = <<>>
    /\ configPage.form.baseUrl = HttpUrl
    /\ configPage.results = <<"Base URL must use HTTPS">>

(***************************************************************************)
(* Claims about the servers.                                               *)
(***************************************************************************)
\* C11, checked under SpecLogin: POST /api/auth/login answers success with
\* access_token, refresh_token, expires_in and token_type whenever username
\* and password are both non-empty, whatever else the body carries, and an
\* error without any token when either is empty, on every server.
C11_LoginSucceedsIffCredentials ==
    login.state = "answered" =>
        LET json == login.response.json IN
        IF ~Falsy(login.body.username) /\ ~Falsy(login.body.password)
        THEN /\ "error" \notin DOMAIN json
             /\ "data" \in DOMAIN json
             /\ {"access_token", "refresh_token", "expires_in", "token_type"}
                    \subseteq DOMAIN json.data
        ELSE /\ "error" \in DOMAIN json
             /\ "data" \notin DOMAIN json

\* C13, checked under SpecSrv: after any sequence of create and update
\* requests no two stored configurations share an integration_code.
C13_IntegrationCodeUnique ==
    \A i, j \in 1..Len(server.configurations) :
        LET a == server.configurations[i]
            b == server.configurations[j]
        IN  (i # j /\ a.integration_code # Absent) =>
                a.integration_code # b.integration_code

\* a configuration that a DELETE has been answered for
IsDeleted(row) == row.id \in server.deleted

\* C14, checked under SpecSrv: once DELETE /api/config/:id has been answered
\* for a configuration, no response returns it, and it stays inactive, so
\* that GET /api/config/:id gives 404 and GET /api/configs omits it.
C14_DeletedStaysGone ==
    /\ \A i \in 1..Len(server.configurations) :
          IsDeleted(server.configurations[i]) => ~server.configurations[i].is_active
    /\ server.response # Absent =>
          \A i \in 1..Len(server.response[1].data) :
              ~IsDeleted(server.response[1].data[i])

\* C16, checked under SpecSrv: no stored configuration holds the plugin
\* password in plain text, and no response carries the password or its hash.
C16_PasswordHashedAndWithheld ==
    /\ \A i \in 1..Len(server.configurations) :
          Falsy(server.configurations[i].plugin_password)
    /\ server.response # Absent =>
          \A i \in 1..Len(server.response[1].data) :
              /\ Falsy(server.response[1].data[i].plugin_password)
              /\ server.response[1].data[i].plugin_password_hash = Absent

(***************************************************************************)
(* Claims about TalabatAPIClient.                                          *)
(***************************************************************************)
\* the call cannot succeed: the request cannot be made or is not answered
\* with what the operation needs
CallFails ==
    \/ apiCall.before.baseUrl = Absent
    \/ apiCall.outcome \in {"http_error", "network_error"}
    \/ /\ apiCall.op = "authenticate"
       /\ apiCall.username = <<>> \/ apiCall.password = <<>> \/ apiCall.outcome # "token"
    \/ /\ apiCall.op = "refreshAccessToken"
       /\ apiCall.before.refreshToken = Absent \/ apiCall.outcome # "token"

ClientLoggedError ==
    \E i \in 1..Len(monitoringManager.logs) :
        /\ monitoringManager.logs[i].level = "error"
        /\ monitoringManager.logs[i].module = "TalabatAPIClient"

\* C15, checked under SpecCall: the promise of every request-making
\* operation of TalabatAPIClient resolves and is never rejected; when the
\* call fails the failure is logged at error level and the result has
\* success = false and an error message, and otherwise success = true.
C15_OperationsNeverReject ==
    apiCall.state = "settled" =>
        LET result == apiCall.result[1] IN
        /\ result.settled = "resolved"
        /\ IF CallFails
           THEN ~result.success /\ result.error # "" /\ ClientLoggedError
           ELSE result.success

\* C15 witness: generateReport was called, the server refused the request,
\* and the failure was logged and came back as a result
C15_Witness ==
    /\ apiCall.state = "settled"
    /\ apiCall.op = "generateReport"
    /\ apiCall.outcome = "http_error"
    /\ apiCall.before.baseUrl # Absent
    /\ apiCall.result[1] = Resolved(FALSE, "HTTP 500: Internal Server Error")
    /\ ClientLoggedError

(***************************************************************************)
(* Claims about the AuthenticationManager, checked under SpecAuth.         *)
(***************************************************************************)
\* talabat_pos_auth holds a token that has not expired
TokenStored ==
    /\ localStorage.talabat_pos_auth # Absent
    /\ clock <= localStorage.talabat_pos_auth[1].expiresAt

\* C12: when this tab has handled the storage event for talabat_pos_auth,
\* isAuthenticated is true exactly when a token that has not expired is stored.
C12_StorageEventSynchronises ==
    [][ StorageEvent => (authManager'.isAuthenticated <=> TokenStored') ]_vars

\* C20: while the manager is authenticated and a token is stored, the time
\* never passes the point five minutes before the token's expiry without a
\* refresh having been attempted: a refresh renews the token or logs out.
C20_RefreshBeforeExpiry ==
    (authManager.isAuthenticated /\ localStorage.talabat_pos_auth # Absent) =>
        clock <= localStorage.talabat_pos_auth[1].expiresAt - 1


(***************************************************************************)
(* C21: a request sent through makeRequest carries the Authorization       *)
(* header exactly when the caller requires authentication (every operation *)
(* but authenticate and refreshAccessToken) and the client holds an access *)
(* token, and the header is "Bearer" with the token the client held; login *)
(* and refresh requests never carry it.                                    *)
(***************************************************************************)
C21_BearerIffRequiredAndHeld ==
    (apiCall.state = "settled" /\ apiCall.request # Absent) =>
        LET Authorization == apiCall.request[1].Authorization
            requireAuth == apiCall.op \notin {"authenticate", "refreshAccessToken"}
        IN  /\ Authorization # Absent <=> (requireAuth /\ apiCall.before.accessToken # Absent)
            /\ Authorization # Absent =>
                   Authorization[1] = Bearer(apiCall.before.accessToken[1])

\* a test request of a client holding a token went out with the header, and
\* so did a refresh request without it
C21_Witness ==
    /\ apiCall.state = "settled"
    /\ apiCall.request # Absent
    /\ apiCall.before.accessToken # Absent
    /\ \/ apiCall.op = "testOrderReception" /\ apiCall.request[1].Authorization # Absent
       \/ apiCall.op = "refreshAccessToken" /\ apiCall.request[1].Authorization = Absent


(***************************************************************************)
(* C22: a completed-orders report over an accepted range holds D x r       *)
(* records, D the days from fromDate to toDate rounded up to a whole       *)
(* number and r the one per-day rate drawn for it, within 10..29; a        *)
(* cancelled-orders report likewise with r within 1..5.  A range whose     *)
(* ends are equal gives no record.                                         *)
(***************************************************************************)
C22_RecordCountIsDaysTimesRate ==
    (lastReport # Absent /\ lastReport[1].params.type \in {"completed", "cancelled"}) =>
        LET report == lastReport[1]
            span == report.params.toDate.t - report.params.fromDate.t
            D == CHOOSE n \in 0..span :
                    n * TicksPerDay >= span /\ (n - 1) * TicksPerDay < span
            r == IF report.params.type = "completed" THEN report.ordersPerDay
                 ELSE report.cancelledPerDay
        IN  /\ report.params.type = "completed" => r \in 10..29
            /\ report.params.type = "cancelled" => r \in 1..5
            /\ Len(report.data.records) = D * r
            /\ span = 0 => report.data.records = <<>>

\* a completed-orders report over a range that is no whole number of days
C22_Witness ==
    /\ lastReport # Absent
    /\ lastReport[1].params.type = "completed"
    /\ (lastReport[1].params.toDate.t - lastReport[1].params.fromDate.t) % TicksPerDay # 0
    /\ Len(lastReport[1].data.records) > lastReport[1].ordersPerDay


(***************************************************************************)
(* C23: the summary of a cancelled-orders report partitions its records:   *)
(* total_cancelled is the number of records, customer_cancelled and        *)
(* restaurant_cancelled add up to it, so do refunds_processed and          *)
(* refunds_pending, and so do the counts of cancellation_reasons.          *)
(***************************************************************************)
C23_CancelledSummaryPartitions ==
    (lastReport # Absent /\ lastReport[1].params.type = "cancelled") =>
        LET records == lastReport[1].data.records
            summary == lastReport[1].data.summary
            reasonCount(i) ==
                IF CancellationReasons[i] \in DOMAIN summary.cancellation_reasons
                THEN summary.cancellation_reasons[CancellationReasons[i]] ELSE 0
        IN  /\ summary.total_cancelled = Len(records)
            /\ summary.customer_cancelled + summary.restaurant_cancelled
                  = summary.total_cancelled
            /\ summary.refunds_processed + summary.refunds_pending = summary.total_cancelled
            /\ DOMAIN summary.cancellation_reasons
                  \subseteq { CancellationReasons[i] : i \in 1..Len(CancellationReasons) }
            /\ reasonCount(1) + reasonCount(2) + reasonCount(3) + reasonCount(4)
                  + reasonCount(5) + reasonCount(6) = summary.total_cancelled

\* a cancelled-orders report with orders cancelled by both sides, refunds of
\* both kinds and more than one reason
C23_Witness ==
    /\ lastReport # Absent
    /\ lastReport[1].params.type = "cancelled"
    /\ lastReport[1].data.summary.customer_cancelled > 0
    /\ lastReport[1].data.summary.restaurant_cancelled > 0
    /\ lastReport[1].data.summary.refunds_processed > 0
    /\ lastReport[1].data.summary.refunds_pending > 0
    /\ Cardinality(DOMAIN lastReport[1].data.summary.cancellation_reasons) > 1


(***************************************************************************)
(* Claims about the IntegrationTester, checked under SpecTest.             *)
(***************************************************************************)

\* the prerequisites of the last test were not met: those of
\* testOrderManagement, of testCatalogManagement, of the full test suite
PrerequisitesUnmet ==
    LET lacks(name) == testRun.config = Null \/ Field(testRun.config[1], name) = <<>>
    IN  \/ /\ testRun.op = "testOrderManagement"
           /\ lacks("vendorCode") \/ lacks("remoteId") \/ ~testRun.isAuthenticated
        \/ /\ testRun.op = "testCatalogManagement"
           /\ testRun.catalogJson = "" \/ ~testRun.isAuthenticated
        \/ /\ testRun.op = "runFullTestSuite"
           /\ lacks("integrationName") \/ ~testRun.isAuthenticated

\* C24: a test whose prerequisites are not met (testOrderManagement without
\* vendor code, remote id or authenticated session, testCatalogManagement
\* without catalog JSON or authenticated session, the full test suite
\* without integration name or authenticated session) sends no request and
\* leaves the test results unchanged, in memory and in the storage.
C24_UnmetPrerequisitesBlock ==
    PrerequisitesUnmet =>
        /\ testRun.requests = <<>>
        /\ integrationTester.testResults = testRun.before
        /\ localStorage.talabat_pos_test_results = testRun.stored

\* the order tests were asked for with vendor code and remote id configured
\* but without a session, after an earlier test had stored its result
C24_Witness ==
    /\ testRun.op = "testOrderManagement"
    /\ testRun.config # Null
    /\ Field(testRun.config[1], "vendorCode") # <<>>
    /\ Field(testRun.config[1], "remoteId") # <<>>
    /\ ~testRun.isAuthenticated
    /\ testRun.stored # Absent
    /\ testRun.results = <<Failed("Authentication required. Please authenticate first.")>>

\* a sub-test of the last order test that called the client reported a failure
OrderSubTestFailed ==
    /\ testRun.op = "testOrderManagement"
    /\ testRun.requests # <<>>
    /\ \E i \in DOMAIN testRun.results : testRun.results[i].mark = "failed"

\* C25: a run of the order tests in which reception, acceptance or rejection
\* reported a failure does not set testResults.order to true, in memory or
\* in the storage.
C25_OrderPassedOnlyIfAllSucceeded ==
    OrderSubTestFailed =>
        /\ integrationTester.testResults.order = testRun.before.order
        /\ localStorage.talabat_pos_test_results = testRun.stored


\* C26: after a token refresh that failed (no refresh token held, the request
\* failed, the response held no access_token) the session is logged out:
\* isAuthenticated is false, the client holds neither access nor refresh
\* token, the stored auth record is removed and no refresh timer is pending.
C26_FailedRefreshLogsOut ==
    (apiCall.op = "refreshToken" /\ ~apiCall.result[1].success) =>
        /\ ~authManager.isAuthenticated
        /\ apiClient.accessToken = Absent
        /\ apiClient.refreshToken = Absent
        /\ localStorage.talabat_pos_auth = Absent
        /\ authManager.tokenExpiryTimer = Absent

\* the refresh of an authenticated session was answered without access_token
C26_Witness ==
    /\ apiCall.op = "refreshToken"
    /\ apiCall.outcome = "json"
    /\ apiCall.before.refreshToken # Absent
    /\ apiCall.result[1] = Resolved(FALSE, "Invalid refresh response")
    /\ ~authManager.isAuthenticated


(***************************************************************************)
(* C27: after any sequence of startMonitoring and stopMonitoring calls at  *)
(* most one collection interval is active, and isMonitoring is true        *)
(* exactly when an interval handle is held (the handle of the one active   *)
(* interval); a startMonitoring while monitoring and a stopMonitoring      *)
(* while stopped change nothing and append no log entry.  Checked under    *)
(* SpecMon.                                                                *)
(***************************************************************************)
C27_OneIntervalAndIdempotent ==
    /\ [](/\ Cardinality(activeIntervals) <= 1
          /\ monitoringManager.isMonitoring <=> monitoringManager.monitoringInterval # 0
          /\ activeIntervals = IF monitoringManager.isMonitoring
                               THEN {monitoringManager.monitoringInterval} ELSE {})
    /\ [][ \/ /\ monitoringManager' = monitoringManager
              /\ activeIntervals' = activeIntervals
           \/ /\ ~(monitoringManager.isMonitoring /\ StartMonitoring)
              /\ ~(~monitoringManager.isMonitoring /\ StopMonitoring) ]_vars

\* monitoring was stopped and started again, and one more call changed nothing
C27_Witness ==
    /\ monitoringManager.isMonitoring
    /\ Cardinality(activeIntervals) = 1
    /\ localStorage = EmptyStorage
    /\ budget = MaxOpsFresh - 3
    /\ Len(monitoringManager.logs) = 3
    /\ \A i \in 1..3 : monitoringManager.logs[i].module = "MonitoringManager"


\* a rate between 0 and 100 percent
IsPercentage(rate) == rate.den > 0 /\ 0 <= rate.num /\ rate.num <= rate.den

\* C28: every point of the error-rate series and of the success-rate series
\* has a value between 0 and 100 percent, after any sequence of tracked call
\* starts, completions and error-level log entries from any module.  Checked
\* under SpecMon.
C28_RatesArePercentages ==
    /\ \A i \in DOMAIN monitoringManager.metrics.errorRate :
           IsPercentage(monitoringManager.metrics.errorRate[i].value)
    /\ \A i \in DOMAIN monitoringManager.metrics.successRate :
           IsPercentage(monitoringManager.metrics.successRate[i].value)


(***************************************************************************)
(* C30: in the in-memory server, after any sequence of POST                *)
(* /api/configurations and POST /api/logs requests with arbitrary bodies,  *)
(* the stored configurations have pairwise distinct ids, the stored logs   *)
(* have pairwise distinct ids, and the count a GET endpoint returns is the *)
(* number of stored entries.  Checked under SpecStorage.                   *)
(***************************************************************************)
DistinctIds(stored) ==
    \A i, j \in DOMAIN stored : stored[i].id = stored[j].id => i = j

C30_DistinctIdsAndCount ==
    /\ DistinctIds(server.configurations)
    /\ DistinctIds(server.logs)
    /\ (server.request # <<>> /\ server.request.method = "GET") =>
           server.response[1].count =
               IF server.request.path = "/api/logs" THEN Len(server.logs)
               ELSE Len(server.configurations)


(***************************************************************************)
(* C29: every operation that shows the loading overlay hides it in the     *)
(* end: whenever the overlay is showing it is hidden later, and it is not  *)
(* showing once no generateReport, testCatalogManagement, authenticate or  *)
(* refreshToken is waiting at its await.  Checked under SpecLoading.       *)
(***************************************************************************)
C29_OverlayHiddenInTheEnd ==
    /\ []((pendingReports = <<>> /\ pendingCalls = <<>>) => ~page.loading)
    /\ (page.loading ~> ~page.loading)

\* a login and a report were waiting together, and both have finished
C29_Witness ==
    /\ ~page.loading
    /\ pendingReports = <<>>
    /\ pendingCalls = <<>>
    /\ lastReport # Absent
    /\ apiCall.op = "authenticate"
    /\ apiCall.outcome = "http_error"

=============================================================================
